---- MODULE Spec2Model ----
(***************************************************************************)
(* Client-side data-freshness and rate-limit layer of the stock dashboard. *)
(*                                                                         *)
(* Time.  Date.now() is an integer number of milliseconds; the model       *)
(* counts instants in units of 100 ms (Ms converts a millisecond literal   *)
(* of the source), which keeps 30-day durations inside TLC's integers.     *)
(* Instant 0 is a Monday 00:00:00.000 Eastern time lying before every      *)
(* instant the model visits, and the modelled window contains no           *)
(* daylight-saving transition, so Eastern wall-clock fields are a fixed    *)
(* function of the instant.                                                *)
(*                                                                         *)
(* Scheduling.  JavaScript runs one handler at a time; an async function   *)
(* runs without interruption up to its next await.  Every action below is  *)
(* one such uninterrupted run: it starts at a call, a timer expiry or the  *)
(* arrival of a provider response and ends at the next await that really   *)
(* suspends or at the return of the call.                                  *)
(***************************************************************************)
EXTENDS Integers, Sequences, FiniteSets, TLC

VARIABLES
    now,              \* Date.now()
    hourCycle,        \* how the platform's Intl formatter prints the hour of midnight
    API_KEY,          \* the build-time VITE_ALPHA_VANTAGE_API_KEY, trimmed
    store,            \* localStorage: cache key -> [data, timestamp]
    storageFull,      \* localStorage.setItem throws (quota exceeded)
    storageDown,      \* localStorage.getItem throws (storage access denied)
    lastApiCallTime,  \* module-level rate-limiter stamp
    nGrants,          \* number of times waitForRateLimit stamped lastApiCallTime
    nRequests,        \* number of provider requests issued (calls of fetch())
    task,             \* the asynchronous callers and the fetch each one is in
    batch,            \* locals of the running fetchMultipleQuotes call
    lastDone,         \* per cache key, the fetch that completed last (history)
    ui,               \* React state of Dashboard, useStockData and StockManager
    popular           \* module state of data/popularStocks (cachedStocks, loadingPromise)

vars == <<now, hourCycle, API_KEY, store, storageFull, storageDown, lastApiCallTime, nGrants, nRequests,
          task, batch, lastDone, ui, popular>>

(***************************************************************************)
(* Bounds of the model                                                     *)
(***************************************************************************)
MaxSymbols == 2       \* longest symbol list handed to fetchMultipleQuotes
MaxPrice == 1         \* distinct payload versions the provider returns
MaxClockSteps == 2    \* clock advances in one behaviour of Spec
MaxCalls == 2         \* fetch operations started in one behaviour of Spec
MaxLimiterCalls == 3  \* fetch operations started in one behaviour of SpecLimiter
MaxBatchedSymbols == 11   \* longest symbol list handed to the batched fetchMultipleQuotes
MaxDisturbances == 2  \* failed or slow provider responses in one behaviour of SpecBatched
MaxPopularCalls == 3  \* calls of loadPopularStocks in one behaviour of SpecPopular

Ms(n) == n \div 100

SECOND == Ms(1000)
MINUTE == 60 * SECOND
HOUR == 60 * MINUTE
DAY == 24 * HOUR
WEEK == 7 * DAY


Symbols == {"AAPL", "MSFT"}

(***************************************************************************)
(* Market calendar (utils/marketHours)                                     *)
(***************************************************************************)
WeekdayNames ==
    <<"Monday", "Tuesday", "Wednesday", "Thursday", "Friday", "Saturday", "Sunday">>

\* The instant of a weekday (0 = Monday) and an Eastern time of day, in the
\* week that starts one week after instant 0.
At(dayIdx, h, m, s) == WEEK + dayIdx * DAY + h * HOUR + m * MINUTE + s * SECOND

\* Intl.DateTimeFormat with hour12: false prints the hour of 00:xx as "0"
\* under hour cycle h23 and as "24" under h24; which one en-US gets depends
\* on the engine.
\* the hour as Intl.DateTimeFormat prints it under hour12: false
FormatHour(h) == IF h = 0 /\ hourCycle = "h24" THEN 24 ELSE h

getETDateParts(date) ==
    [ weekday |-> WeekdayNames[((date \div DAY) % 7) + 1],
      hour    |-> FormatHour((date % DAY) \div HOUR),
      minute  |-> ((date % DAY) % HOUR) \div MINUTE,
      second  |-> ((date % DAY) % MINUTE) \div SECOND ]

isWeekday(date) == getETDateParts(date).weekday \notin {"Saturday", "Sunday"}

isAfterOpen(parts) == parts.hour > 9 \/ (parts.hour = 9 /\ parts.minute >= 30)
\* a close test that counts the hour after 16:00 as trading time
isBeforeClose_Inclusive(parts) == parts.hour <= 16

isBeforeClose(parts) == parts.hour < 16

isMarketOpen(date) ==
    IF ~isWeekday(date) THEN FALSE
    ELSE isAfterOpen(getETDateParts(date)) /\ isBeforeClose(getETDateParts(date))

currentMinuteOfDay(parts) == parts.hour * 60 + parts.minute
closeMinuteOfDay == 16 * 60
openMinuteOfDay == 9 * 60 + 30

minutesUntilClose(parts) ==
    IF currentMinuteOfDay(parts) < closeMinuteOfDay
    THEN closeMinuteOfDay - currentMinuteOfDay(parts)
    ELSE (24 * 60 - currentMinuteOfDay(parts)) + closeMinuteOfDay

getMarketCloseTime(date) == date + minutesUntilClose(getETDateParts(date)) * Ms(60 * 1000)

minutesUntilMidnight(parts) == 24 * 60 - currentMinuteOfDay(parts)

minutesUntilOpen(parts) ==
    IF parts.weekday = "Saturday"
    THEN minutesUntilMidnight(parts) + 24 * 60 + openMinuteOfDay
    ELSE IF parts.weekday = "Sunday"
    THEN minutesUntilMidnight(parts) + openMinuteOfDay
    ELSE IF currentMinuteOfDay(parts) < openMinuteOfDay
    THEN openMinuteOfDay - currentMinuteOfDay(parts)
    ELSE IF parts.weekday = "Friday"
    THEN minutesUntilMidnight(parts) + 24 * 60 + 24 * 60 + openMinuteOfDay
    ELSE minutesUntilMidnight(parts) + openMinuteOfDay

getNextMarketOpen(date) == date + minutesUntilOpen(getETDateParts(date)) * Ms(60 * 1000)

Max(a, b) == IF a >= b THEN a ELSE b

\* a policy that keeps a quote for five minutes while the market is open
getCacheDuration_FiveMinutes(cacheType, timestamp) ==
    CASE cacheType = "quote" ->
            IF isMarketOpen(timestamp)
            THEN Ms(5 * 60 * 1000)
            ELSE Max(Ms(60 * 1000), getNextMarketOpen(timestamp) - timestamp)
      [] cacheType = "chart" ->
            Max(Ms(60 * 1000), getMarketCloseTime(timestamp) - timestamp)
      [] cacheType = "chart_weekly" -> Ms(7 * 24 * 60 * 60 * 1000)
      [] cacheType = "listing" -> 30 * 24 * 60 * 60 * Ms(1000)
      [] OTHER -> Ms(7 * 24 * 60 * 60 * 1000)

\* a policy that treats every chart category like the daily series
getCacheDuration_ChartPrefix(cacheType, timestamp) ==
    CASE cacheType = "quote" ->
            IF isMarketOpen(timestamp)
            THEN Ms(2 * 60 * 1000)
            ELSE Max(Ms(60 * 1000), getNextMarketOpen(timestamp) - timestamp)
      [] cacheType \in {"chart", "chart_monthly"} ->
            Max(Ms(60 * 1000), getMarketCloseTime(timestamp) - timestamp)
      [] cacheType = "chart_weekly" -> Ms(7 * 24 * 60 * 60 * 1000)
      [] cacheType = "listing" -> 30 * 24 * 60 * 60 * Ms(1000)
      [] OTHER -> Ms(7 * 24 * 60 * 60 * 1000)

getCacheDuration(cacheType, timestamp) ==
    CASE cacheType = "quote" ->
            IF isMarketOpen(timestamp)
            THEN Ms(2 * 60 * 1000)
            ELSE Max(Ms(60 * 1000), getNextMarketOpen(timestamp) - timestamp)
      [] cacheType = "chart" ->
            Max(Ms(60 * 1000), getMarketCloseTime(timestamp) - timestamp)
      [] cacheType = "chart_weekly" -> Ms(7 * 24 * 60 * 60 * 1000)
      [] cacheType = "listing" -> 30 * 24 * 60 * 60 * Ms(1000)
      [] OTHER -> Ms(7 * 24 * 60 * 60 * 1000)

(***************************************************************************)
(* Persistent entry store and configuration (services/alphaVantageApi)     *)
(***************************************************************************)
\* Strings the code concatenates are sequences of tokens.
CACHE_KEY_PREFIX == <<"stock_quote_">>
CHART_CACHE_PREFIX == <<"stock_chart_">>
LISTING_CACHE_KEY == <<"stock_listing_status">>
LISTING_CACHE_DURATION == 30 * 24 * 60 * 60 * Ms(1000)
MIN_API_CALL_INTERVAL == Ms(1200)

ApiKeys == {"", "your_api_key", "DEMOKEY0123456789"}
PLACEHOLDER_KEYS == {"", "DISABLED", "YOUR_API_KEY", "CHANGEME"}
ToUpperCase(s) == IF s = "your_api_key" THEN "YOUR_API_KEY" ELSE s

\* TRUE when ensureApiKeyConfigured returns, FALSE when it throws
ensureApiKeyConfigured == ~(API_KEY = "" \/ ToUpperCase(API_KEY) \in PLACEHOLDER_KEYS)

ConfigErrorMessage == <<"Alpha Vantage API key is missing.">>

\* Payloads: a normalized quote, bar series or listing, or null.
Data(type, symbol, value) == [type |-> type, symbol |-> symbol, value |-> value]
Null == Data("null", "", 0)

Ops == {"quote", "daily", "weekly", "monthly", "listing"}

\* A string as the pieces it is concatenated from: a symbol is one piece,
\* unless it begins with a piece the keys themselves are built from.
Pieces(symbol) ==
    CASE symbol = "weekly_AAPL"  -> <<"weekly_", "AAPL">>
      [] symbol = "monthly_AAPL" -> <<"monthly_", "AAPL">>
      [] OTHER -> <<symbol>>

\* the strings among those looked at that match /^[A-Z.]{1,6}$/
SymbolPattern == {"AAPL", "MSFT", "BRK.B", "GOOGL", "TSLA", "NVDA"}

\* a validation that only looks at the length of the text after the last '_'
validateSymbol_Lenient(symbol) == Pieces(symbol)[Len(Pieces(symbol))] \in SymbolPattern

\* StockManager.validateSymbol
validateSymbol(symbol) == symbol \in SymbolPattern

\* the cache key each fetch operation builds
CacheKey(op, symbol) ==
    CASE op = "quote"   -> CACHE_KEY_PREFIX \o Pieces(symbol)
      [] op = "daily"   -> CHART_CACHE_PREFIX \o Pieces(symbol)
      [] op = "weekly"  -> CHART_CACHE_PREFIX \o <<"weekly_">> \o Pieces(symbol)
      [] op = "monthly" -> CHART_CACHE_PREFIX \o <<"monthly_">> \o Pieces(symbol)
      [] op = "listing" -> LISTING_CACHE_KEY

\* the cacheType each fetch operation passes to getCachedData
CacheType(op) ==
    CASE op = "quote"   -> "quote"
      [] op = "daily"   -> "chart"
      [] op = "weekly"  -> "chart_weekly"
      [] op = "monthly" -> "chart_monthly"
      [] op = "listing" -> "listing"

\* a stored value that JSON.parse rejects
Corrupt == [data |-> Data("corrupt", "", 0), timestamp |-> 0]

\* a validity test that still accepts an entry whose age equals its duration
getCachedData_Inclusive(key, cacheType) ==
    IF storageDown \/ key \notin DOMAIN store THEN Null
    ELSE IF store[key] = Corrupt THEN Null
    ELSE LET cached == store[key]
             cacheDuration == getCacheDuration(cacheType, cached.timestamp)
             age == now - cached.timestamp
             isValid == age <= cacheDuration
         IN  IF isValid THEN cached.data ELSE Null

\* getItem or JSON.parse throwing is caught and read as no entry
getCachedData(key, cacheType) ==
    IF storageDown \/ key \notin DOMAIN store THEN Null
    ELSE IF store[key] = Corrupt THEN Null
    ELSE LET cached == store[key]
             cacheDuration == getCacheDuration(cacheType, cached.timestamp)
             age == now - cached.timestamp
             isValid == age < cacheDuration
         IN  IF isValid THEN cached.data ELSE Null

\* setCachedData that leaves an entry it finds in place
setCachedData_KeepOld(key, data) ==
    [k \in DOMAIN store \cup {key} |->
        IF k = key /\ key \notin DOMAIN store
        THEN [data |-> data, timestamp |-> now] ELSE store[k]]

\* the store after setCachedData(key, data); a setItem that throws is caught
setCachedData(key, data) ==
    IF storageFull THEN store
    ELSE [k \in DOMAIN store \cup {key} |->
            IF k = key THEN [data |-> data, timestamp |-> now] ELSE store[k]]

\* the cache read at the head of fetchListingStatus, once getItem has
\* returned; JSON.parse throwing is caught
ListingCacheRead ==
    IF LISTING_CACHE_KEY \notin DOMAIN store THEN Null
    ELSE IF store[LISTING_CACHE_KEY] = Corrupt THEN Null
    ELSE LET cached == store[LISTING_CACHE_KEY]
             isValid == now - cached.timestamp < LISTING_CACHE_DURATION
         IN  IF isValid THEN cached.data ELSE Null

\* a fetch that never consults the cache
CacheLookup_Bypass(op, symbol, useCache) == Null

\* what a fetch operation finds in the cache before anything else
CacheLookup(op, symbol, useCache) ==
    IF op = "listing" THEN ListingCacheRead
    ELSE IF useCache THEN getCachedData(CacheKey(op, symbol), CacheType(op))
    ELSE Null

(***************************************************************************)
(* Provider responses and their classification                             *)
(***************************************************************************)
\* Tokens the pattern [A-Z0-9]{16,} matches
LongUpperAlnum == {"DEMOKEY0123456789"}

RECURSIVE TrimStart(_)
TrimStart(s) == IF s # <<>> /\ Head(s) = " " THEN TrimStart(Tail(s)) ELSE s

RECURSIVE TrimEnd(_)
TrimEnd(s) ==
    IF s # <<>> /\ s[Len(s)] = " " THEN TrimEnd(SubSeq(s, 1, Len(s) - 1)) ELSE s

Trim(s) == TrimEnd(TrimStart(s))

\* <<>> stands for null, undefined and the empty string alike (all falsy)
parseInformationMessage(info) ==
    IF info = <<>> THEN <<>>
    ELSE LET trimmed == Trim(info)
         IN  IF trimmed = <<>> THEN <<>>
             ELSE [i \in 1..Len(trimmed) |->
                      IF trimmed[i] \in LongUpperAlnum THEN "[API_KEY]" ELSE trimmed[i]]

\* A provider response: response.ok, the three notice fields of the body,
\* the payload version (0: the price, series or listing rows are missing) and
\* whether a quote carries its "10. change percent" field.
Resp(ok, info, note, err, payload, pct) ==
    [ok |-> ok, Information |-> info, Note |-> note, ErrorMessage |-> err,
     payload |-> payload, changePercent |-> pct]

ProviderResponses ==
    { Resp(FALSE, <<>>, <<>>, <<>>, 0, FALSE),
      Resp(TRUE, <<"daily limit for key ", "DEMOKEY0123456789">>, <<>>, <<>>, 0, FALSE),
      Resp(TRUE, <<>>, <<"5 calls per minute">>, <<>>, 0, FALSE),
      Resp(TRUE, <<>>, <<>>, <<"Invalid API call">>, 0, FALSE),
      Resp(TRUE, <<>>, <<>>, <<>>, 0, FALSE) }
    \cup { Resp(TRUE, <<>>, <<>>, <<>>, p, TRUE) : p \in 1..MaxPrice }
    \cup { Resp(TRUE, <<>>, <<>>, <<>>, 1, FALSE) }

\* The outcome of a fetch: a returned payload or a thrown error message.
Ok(data, hit) == [kind |-> "ok", data |-> data, msg |-> <<>>, hit |-> hit]
Err(msg) == [kind |-> "err", data |-> Null, msg |-> msg, hit |-> FALSE]
NoRet == [kind |-> "none", data |-> Null, msg |-> <<>>, hit |-> FALSE]

\* the record a fetch operation builds from a clean payload
Normalize(op, symbol, payload) ==
    IF op = "quote" THEN Data("quote", symbol, payload) ELSE Data(op, "", payload)

\* fetchQuote and the time-series fetches, from the response to the return or throw
ClassifyJson(op, symbol, r) ==
    IF ~r.ok THEN Err(<<"Failed to fetch ", op, symbol>>)
    ELSE IF parseInformationMessage(r.Information) # <<>>
    THEN Err(parseInformationMessage(r.Information))
    ELSE IF parseInformationMessage(r.Note) # <<>>
    THEN Err(parseInformationMessage(r.Note))
    ELSE IF r.ErrorMessage # <<>> THEN Err(r.ErrorMessage)
    ELSE IF r.payload = 0 THEN Err(<<"No data available for ", op, symbol>>)
    ELSE IF op = "quote" /\ ~r.changePercent
    THEN Err(<<"TypeError: cannot read properties of undefined">>)
    ELSE Ok(Normalize(op, symbol, r.payload), FALSE)

\* fetchListingStatus, from the response to the return or throw
ClassifyListing(r) ==
    IF ~r.ok THEN Err(<<"Failed to fetch listing status">>)
    ELSE IF r.ErrorMessage # <<>> \/ r.Information # <<>> \/ r.Note # <<>>
    THEN Err(<<"API limit reached or error occurred">>)
    ELSE IF r.payload = 0 THEN Err(<<"No valid listings found">>)
    ELSE Ok(Normalize("listing", "", r.payload), FALSE)

Classify(op, symbol, r) ==
    IF op = "listing" THEN ClassifyListing(r) ELSE ClassifyJson(op, symbol, r)

\* a fetch that caches whatever it got before it classifies the response
StoreAfterResponse_Always(key, result) == setCachedData(key, result.data)

\* the store after a fetch has handled the provider's response
StoreAfterResponse(key, result) ==
    IF result.kind = "ok" THEN setCachedData(key, result.data) ELSE store

(***************************************************************************)
(* A fetch operation up to its first suspension                            *)
(***************************************************************************)
\* the exception of a localStorage access that is denied
StorageErrorMessage == <<"SecurityError: The operation is insecure.">>

Step(step, data, msg, delay) == [step |-> step, data |-> data, msg |-> msg, delay |-> delay]

\* waitForRateLimit up to its await: the delay it sleeps, 0 when it grants at once
waitForRateLimit ==
    LET timeSinceLastCall == now - lastApiCallTime
    IN  IF timeSinceLastCall < MIN_API_CALL_INTERVAL
        THEN MIN_API_CALL_INTERVAL - timeSinceLastCall
        ELSE 0

\* a fetch that checks the API key before it looks into the cache
FetchEntry_KeyFirst(op, symbol, useCache) ==
    LET cached == CacheLookup(op, symbol, useCache)
    IN  IF op = "listing" /\ storageDown THEN Step("throw", Null, StorageErrorMessage, 0)
        ELSE IF ~ensureApiKeyConfigured THEN Step("throw", Null, ConfigErrorMessage, 0)
        ELSE IF cached # Null THEN Step("hit", cached, <<>>, 0)
        ELSE IF waitForRateLimit > 0 THEN Step("wait", Null, <<>>, waitForRateLimit)
        ELSE Step("grant", Null, <<>>, 0)

\* a fetch that takes its rate-limiter slot without checking the API key
FetchEntry_LimiterFirst(op, symbol, useCache) ==
    LET cached == CacheLookup(op, symbol, useCache)
    IN  IF op = "listing" /\ storageDown THEN Step("throw", Null, StorageErrorMessage, 0)
        ELSE IF cached # Null THEN Step("hit", cached, <<>>, 0)
        ELSE IF waitForRateLimit > 0 THEN Step("wait", Null, <<>>, waitForRateLimit)
        ELSE Step("grant", Null, <<>>, 0)

\* cache check, key check, rate limiter: what the call does before it
\* suspends.  fetchListingStatus calls getItem outside its try block, so a
\* getItem that throws ends the call.
FetchEntry(op, symbol, useCache) ==
    LET cached == CacheLookup(op, symbol, useCache)
    IN  IF op = "listing" /\ storageDown THEN Step("throw", Null, StorageErrorMessage, 0)
        ELSE IF cached # Null THEN Step("hit", cached, <<>>, 0)
        ELSE IF ~ensureApiKeyConfigured THEN Step("throw", Null, ConfigErrorMessage, 0)
        ELSE IF waitForRateLimit > 0 THEN Step("wait", Null, <<>>, waitForRateLimit)
        ELSE Step("grant", Null, <<>>, 0)

(***************************************************************************)
(* Asynchronous callers                                                    *)
(***************************************************************************)
\* "batch":   useStockData.fetchStocks -> fetchMultipleQuotes
\* "chart":   StockChart.loadChartData
\* "add":     StockManager.handleAdd
\* "listing": loadPopularStocks -> fetchListingStatus
\* "load1", "load2": two runs of the effect of the useStockData hook
\* "add2":    a second handleAdd, started while the first one is pending
Tasks == {"batch", "chart", "add", "listing", "load1", "load2", "add2"}

\* pc: idle, wait (sleeping in waitForRateLimit), inflight (request sent),
\*     ret (the fetch has returned or thrown), pause (handleAdd's delay), done
\* calls: fetch operations the caller has started so far
\* sent:  the current fetch has issued its provider request
\* succ:  how the current fetch relates to the fetch that completed last on
\*        its key: "afterOk"/"afterErr" when both use the cache, no time has
\*        passed and no forced refresh came between them, else "no"
\* prevSent: that earlier fetch issued a provider request
IdleTask ==
    [pc |-> "idle", op |-> "none", symbol |-> "", useCache |-> FALSE, wakeAt |-> 0,
     ret |-> NoRet, stage |-> "", calls |-> 0, sent |-> FALSE, succ |-> "no",
     prevSent |-> FALSE]

Successor(key, useCache) ==
    IF useCache /\ key \in DOMAIN lastDone
       /\ lastDone[key].useCache /\ lastDone[key].at = now
    THEN (IF lastDone[key].kind = "ok" THEN "afterOk" ELSE "afterErr")
    ELSE "no"

\* lastDone after a fetch on key has completed with ret
Completed(key, useCache, ret, sent) ==
    [k \in DOMAIN lastDone \cup {key} |->
        IF k = key
        THEN [at |-> now, useCache |-> useCache, kind |-> ret.kind, sent |-> sent]
        ELSE lastDone[k]]

\* The caller t, whose record is base, calls a fetch operation: the run up
\* to the return, the throw or the first await that suspends.
BeginFetch(t, base, op, symbol, useCache) ==
    LET e   == FetchEntry(op, symbol, useCache)
        key == CacheKey(op, symbol)
        c   == [base EXCEPT !.op = op, !.symbol = symbol, !.useCache = useCache,
                            !.calls = @ + 1, !.sent = FALSE, !.ret = NoRet,
                            !.succ = Successor(key, useCache),
                            !.prevSent = Successor(key, useCache) # "no" /\ lastDone[key].sent]
        r   == IF e.step = "hit" THEN Ok(e.data, TRUE) ELSE Err(e.msg)
    IN  /\ task' = [task EXCEPT ![t] =
                CASE e.step \in {"hit", "throw"} -> [c EXCEPT !.pc = "ret", !.ret = r]
                  [] e.step = "wait" -> [c EXCEPT !.pc = "wait", !.wakeAt = now + e.delay]
                  [] e.step = "grant" -> [c EXCEPT !.pc = "inflight", !.sent = TRUE]]
        /\ lastApiCallTime' = IF e.step = "grant" THEN now ELSE lastApiCallTime
        /\ nGrants' = IF e.step = "grant" THEN nGrants + 1 ELSE nGrants
        /\ nRequests' = IF e.step = "grant" THEN nRequests + 1 ELSE nRequests
        /\ lastDone' =
              IF e.step \in {"hit", "throw"}
              THEN Completed(key, useCache, r, FALSE)
              ELSE IF ~useCache
              THEN [k \in DOMAIN lastDone \ {key} |-> lastDone[k]]
              ELSE lastDone
        /\ UNCHANGED store

\* The timer of waitForRateLimit expires: stamp, then send the request.
TimerFire(t) ==
    /\ task[t].pc = "wait"
    /\ now >= task[t].wakeAt
    /\ lastApiCallTime' = now
    /\ nGrants' = nGrants + 1
    /\ nRequests' = nRequests + 1
    /\ task' = [task EXCEPT ![t].pc = "inflight", ![t].sent = TRUE]
    /\ UNCHANGED <<now, hourCycle, API_KEY, storageFull, storageDown, ui, popular, store, batch, lastDone>>

\* The provider's response r arrives: classify, write through, return or throw.
Response(t, r) ==
    /\ task[t].pc = "inflight"
    /\ LET result == Classify(task[t].op, task[t].symbol, r)
           key == CacheKey(task[t].op, task[t].symbol)
       IN  /\ store' = StoreAfterResponse(key, result)
           /\ task' = [task EXCEPT ![t].pc = "ret", ![t].ret = result]
           /\ lastDone' = Completed(key, task[t].useCache, result, task[t].sent)
    /\ UNCHANGED <<now, hourCycle, API_KEY, storageFull, storageDown, ui, popular, lastApiCallTime, nGrants, nRequests, batch>>

(***************************************************************************)
(* Batch orchestrator: fetchMultipleQuotes, called by fetchStocks          *)
(***************************************************************************)
\* An entry of the batch log: a progress event handed to onProgress, or a
\* marker of the start or the end of the fetchQuote of the symbol at index
\* loaded.
LogEntry(type, status, currentSymbol, loaded, total) ==
    [type |-> type, status |-> status, currentSymbol |-> currentSymbol,
     loaded |-> loaded, total |-> total]

\* a progress event that counts the symbol in progress as loaded
ProgressEvent_CountsCurrent(symbols, i) ==
    LogEntry("progress", "loading", symbols[i + 1], i + 1, Len(symbols))

\* the progress event of loop index i (0-based, as in the code)
ProgressEvent(symbols, i) ==
    LogEntry("progress", "loading", symbols[i + 1], i, Len(symbols))

FetchStartMark(symbols, i) == LogEntry("fetchStart", "", symbols[i + 1], i, Len(symbols))
FetchEndMark(symbols, i) == LogEntry("fetchEnd", "", symbols[i + 1], i, Len(symbols))

NoResult == [kind |-> "none", quotes |-> <<>>, msg |-> <<>>]

\* fetchMultipleQuotes that throws as soon as one symbol has failed
BatchResult_AnyError(quotes, errors) ==
    IF Len(errors) > 0
    THEN [kind |-> "raised", quotes |-> <<>>,
          msg |-> <<"Error fetching quotes: ">> \o errors[1].error]
    ELSE [kind |-> "returned", quotes |-> quotes, msg |-> <<>>]

\* fetchMultipleQuotes that reports the last recorded error
BatchResult_LastError(quotes, errors) ==
    IF Len(quotes) > 0 THEN [kind |-> "returned", quotes |-> quotes, msg |-> <<>>]
    ELSE IF Len(errors) > 0
    THEN [kind |-> "raised", quotes |-> <<>>,
          msg |-> <<"Error fetching quotes: ">> \o errors[Len(errors)].error]
    ELSE [kind |-> "returned", quotes |-> quotes, msg |-> <<>>]

\* what fetchMultipleQuotes does after the loop
BatchResult(quotes, errors) ==
    IF Len(quotes) > 0 THEN [kind |-> "returned", quotes |-> quotes, msg |-> <<>>]
    ELSE IF Len(errors) > 0
    THEN [kind |-> "raised", quotes |-> <<>>,
          msg |-> <<"Error fetching quotes: ">> \o errors[1].error]
    ELSE [kind |-> "returned", quotes |-> quotes, msg |-> <<>>]

\* outcomes: the outcome of each fetchQuote of the call, in call order (history)
\* starts: the instants at which the batched variant called fetchQuote (history)
\* slow: the number of provider responses that took their time (history)
IdleBatch ==
    [symbols |-> <<>>, useCache |-> TRUE, onProgress |-> TRUE, i |-> 0, quotes |-> <<>>,
     errors |-> <<>>, log |-> <<>>, outcomes |-> <<>>, result |-> NoResult,
     starts |-> <<>>, slow |-> 0]

SymbolLists == UNION { [1..n -> Symbols] : n \in 0..MaxSymbols }

\* One loop iteration up to the await of fetchQuote: b is the batch record
\* with index b.i still to be fetched.
BatchIterate(b) ==
    LET symbol == b.symbols[b.i + 1]
    IN  /\ batch' = [b EXCEPT !.log = @ \o <<ProgressEvent(b.symbols, b.i),
                                               FetchStartMark(b.symbols, b.i)>>]
        /\ BeginFetch("batch", task["batch"], "quote", symbol, b.useCache)

\* fetchStocks calls fetchMultipleQuotes(symbols, onProgress, useCache).
BatchStart(symbols, useCache) ==
    /\ task["batch"].pc = "idle"
    /\ LET b == [IdleBatch EXCEPT !.symbols = symbols, !.useCache = useCache]
       IN  IF Len(symbols) = 0
           THEN /\ batch' = [b EXCEPT !.result = BatchResult(<<>>, <<>>)]
                /\ task' = [task EXCEPT !["batch"].pc = "done"]
                /\ UNCHANGED <<store, lastApiCallTime, nGrants, nRequests, lastDone>>
           ELSE BatchIterate(b)
    /\ UNCHANGED <<now, hourCycle, API_KEY, storageFull, storageDown, ui, popular>>

\* The awaited fetchQuote has settled: push the quote or the error, then
\* either run the next iteration or leave the loop and return or throw.
BatchResume ==
    /\ task["batch"].pc = "ret"
    /\ LET ret == task["batch"].ret
           symbol == batch.symbols[batch.i + 1]
           b == [batch EXCEPT
                   !.quotes = IF ret.kind = "ok" THEN Append(@, ret.data) ELSE @,
                   !.errors = IF ret.kind = "err"
                              THEN Append(@, [symbol |-> symbol, error |-> ret.msg])
                              ELSE @,
                   !.outcomes = Append(@, ret),
                   !.log = Append(@, FetchEndMark(batch.symbols, batch.i)),
                   !.i = @ + 1]
       IN  IF b.i < Len(b.symbols)
           THEN BatchIterate(b)
           ELSE /\ batch' = [b EXCEPT !.result = BatchResult(b.quotes, b.errors)]
                /\ task' = [task EXCEPT !["batch"].pc = "done"]
                /\ UNCHANGED <<store, lastApiCallTime, nGrants, nRequests, lastDone>>
    /\ UNCHANGED <<now, hourCycle, API_KEY, storageFull, storageDown, ui, popular>>

(***************************************************************************)
(* Batched fetchMultipleQuotes of services/alphaVantageApi.js              *)
(***************************************************************************)
BATCH_SIZE == 5
WAIT_BETWEEN_BATCHES == Ms(61000)
REQUEST_DELAY == Ms(500)

Min(a, b) == IF a <= b THEN a ELSE b

\* symbols.slice(i, i + BATCH_SIZE)
BatchSlice(symbols, i) == SubSeq(symbols, i + 1, Min(i + BATCH_SIZE, Len(symbols)))

WaitingEvent(symbols, i) == LogEntry("progress", "waiting", "", i, Len(symbols))

\* an outer loop that pauses only from the third batch on
PauseBeforeBatch_FromThird(i) == i > BATCH_SIZE

\* if (i > 0): every batch but the first is preceded by the pause
PauseBeforeBatch(i) == i > 0

\* fetchQuote of services/alphaVantageApi.js up to its await: cache check,
\* key check, request; there is no rate limiter in this file
FetchEntryPlain(symbol, useCache) ==
    LET cached == CacheLookup("quote", symbol, useCache)
    IN  IF cached # Null THEN Step("hit", cached, <<>>, 0)
        ELSE IF ~ensureApiKeyConfigured THEN Step("throw", Null, ConfigErrorMessage, 0)
        ELSE Step("send", Null, <<>>, 0)

BeginFetchPlain(symbol, useCache) ==
    LET e   == FetchEntryPlain(symbol, useCache)
        key == CacheKey("quote", symbol)
        c   == [task["batch"] EXCEPT !.op = "quote", !.symbol = symbol,
                                     !.useCache = useCache, !.calls = @ + 1,
                                     !.sent = FALSE, !.ret = NoRet, !.stage = ""]
        r   == IF e.step = "hit" THEN Ok(e.data, TRUE) ELSE Err(e.msg)
    IN  /\ task' = [task EXCEPT !["batch"] =
                IF e.step = "send" THEN [c EXCEPT !.pc = "inflight", !.sent = TRUE]
                ELSE [c EXCEPT !.pc = "ret", !.ret = r]]
        /\ nRequests' = IF e.step = "send" THEN nRequests + 1 ELSE nRequests
        /\ lastDone' = IF e.step = "send" THEN lastDone ELSE Completed(key, useCache, r, FALSE)
        /\ UNCHANGED <<store, lastApiCallTime, nGrants>>

\* One inner-loop iteration up to the await of fetchQuote.
BatchedIterate(b) ==
    LET symbol == b.symbols[b.i + 1]
    IN  /\ batch' = [b EXCEPT
                       !.log = @ \o (IF b.onProgress THEN <<ProgressEvent(b.symbols, b.i)>>
                                     ELSE <<>>)
                                \o <<FetchStartMark(b.symbols, b.i)>>,
                       !.starts = Append(@, now)]
        /\ BeginFetchPlain(symbol, b.useCache)

\* The caller suspends on a setTimeout of the given delay.
BatchedPause(b, stage, delay) ==
    /\ batch' = b
    /\ task' = [task EXCEPT !["batch"].pc = "pause", !["batch"].stage = stage,
                            !["batch"].wakeAt = now + delay]
    /\ UNCHANGED <<store, lastApiCallTime, nGrants, nRequests, lastDone>>

\* The head of an outer-loop iteration that starts at index b.i.
BatchedEnter(b) ==
    IF PauseBeforeBatch(b.i)
    THEN BatchedPause([b EXCEPT !.log = @ \o (IF b.onProgress
                                               THEN <<WaitingEvent(b.symbols, b.i)>>
                                               ELSE <<>>)],
                      "batchWait", WAIT_BETWEEN_BATCHES)
    ELSE BatchedIterate(b)

BatchedStart(symbols, onProgress, useCache) ==
    /\ task["batch"].pc = "idle"
    /\ LET b == [IdleBatch EXCEPT !.symbols = symbols, !.useCache = useCache,
                                  !.onProgress = onProgress]
       IN  IF Len(symbols) = 0
           THEN /\ batch' = [b EXCEPT !.result = BatchResult(<<>>, <<>>)]
                /\ task' = [task EXCEPT !["batch"].pc = "done"]
                /\ UNCHANGED <<store, lastApiCallTime, nGrants, nRequests, lastDone>>
           ELSE BatchedEnter(b)
    /\ UNCHANGED <<now, hourCycle, API_KEY, storageFull, storageDown, ui, popular>>

\* The awaited fetchQuote has settled: push the quote or the error, then the
\* 500 ms delay inside a batch, the next batch, or the result.
BatchedResume ==
    /\ task["batch"].pc = "ret"
    /\ LET ret == task["batch"].ret
           symbol == batch.symbols[batch.i + 1]
           j == batch.i % BATCH_SIZE
           slice == BatchSlice(batch.symbols, batch.i - j)
           b == [batch EXCEPT
                   !.quotes = IF ret.kind = "ok" THEN Append(@, ret.data) ELSE @,
                   !.errors = IF ret.kind = "err"
                              THEN Append(@, [symbol |-> symbol, error |-> ret.msg])
                              ELSE @,
                   !.outcomes = Append(@, ret),
                   !.log = Append(@, FetchEndMark(batch.symbols, batch.i)),
                   !.i = @ + 1]
       IN  IF j < Len(slice) - 1
           THEN BatchedPause(b, "delay", REQUEST_DELAY)
           ELSE IF b.i < Len(b.symbols)
           THEN BatchedEnter(b)
           ELSE /\ batch' = [b EXCEPT !.result = BatchResult(b.quotes, b.errors)]
                /\ task' = [task EXCEPT !["batch"].pc = "done"]
                /\ UNCHANGED <<store, lastApiCallTime, nGrants, nRequests, lastDone>>
    /\ UNCHANGED <<now, hourCycle, API_KEY, storageFull, storageDown, ui, popular>>

\* Time passes until the pending setTimeout is due.
BatchedSleep ==
    /\ task["batch"].pc = "pause"
    /\ now < task["batch"].wakeAt
    /\ now' = task["batch"].wakeAt
    /\ lastDone' = <<>>
    /\ UNCHANGED <<hourCycle, API_KEY, storageFull, storageDown, ui, popular, store, lastApiCallTime, nGrants,
                   nRequests, task, batch>>

\* The setTimeout resolves: the loop goes on with the fetch of index batch.i.
BatchedWake ==
    /\ task["batch"].pc = "pause"
    /\ now >= task["batch"].wakeAt
    /\ BatchedIterate(batch)
    /\ UNCHANGED <<now, hourCycle, API_KEY, storageFull, storageDown, ui, popular>>

\* The provider takes its time over the request in flight.
SlowResponse(latency) ==
    /\ task["batch"].pc = "inflight"
    /\ now' = now + latency
    /\ batch' = [batch EXCEPT !.slow = @ + 1]
    /\ lastDone' = <<>>
    /\ UNCHANGED <<hourCycle, API_KEY, storageFull, storageDown, ui, popular, store, lastApiCallTime, nGrants,
                   nRequests, task>>

(***************************************************************************)
(* StockChart.loadChartData                                                *)
(***************************************************************************)
TimeRanges == {"daily", "weekly", "monthly"}

\* The load effect runs for symbol and timeRange; useCache = !isRefresh.
ChartLoad(symbol, timeRange, useCache) ==
    /\ task["chart"].pc \in {"idle", "done"}
    /\ BeginFetch("chart", task["chart"], timeRange, symbol, useCache)
    /\ UNCHANGED <<now, hourCycle, API_KEY, storageFull, storageDown, ui, popular, batch>>

\* error.includes(phrase), on messages cut so that each phrase looked for is
\* a piece of its own
Includes(error, phrase) == \E i \in 1..Len(error) : error[i] = phrase

\* the guidance StockChart shows for the message of a failed load
ErrorGuidance(error) ==
    IF Includes(error, "25 requests per day") \/ Includes(error, "daily limit")
    THEN "Daily API limit reached (25 requests/day)."
    ELSE IF Includes(error, "per second") \/ Includes(error, "API limit")
    THEN "Rate limit exceeded. Please wait a moment and try refreshing."
    ELSE "Unable to load chart data at this time"

\* The awaited time-series fetch has settled.
ChartSettle ==
    /\ task["chart"].pc = "ret"
    /\ task' = [task EXCEPT !["chart"] = [IdleTask EXCEPT !.pc = "done", !.calls = task["chart"].calls]]
    /\ UNCHANGED <<now, hourCycle, API_KEY, storageFull, storageDown, ui, popular, store, lastApiCallTime, nGrants,
                   nRequests, batch, lastDone>>

(***************************************************************************)
(* StockManager.handleAdd                                                  *)
(***************************************************************************)
\* handleAdd(symbol) up to the await of the validating fetchQuote(symbol, false)
AddStart(symbol) ==
    /\ task["add"].pc = "idle"
    /\ BeginFetch("add", [task["add"] EXCEPT !.stage = "quote"], "quote", symbol, FALSE)
    /\ UNCHANGED <<now, hourCycle, API_KEY, storageFull, storageDown, ui, popular, batch>>

\* fetchQuote has settled: on success sleep 1000 ms, on failure show the error
AddAfterQuote ==
    /\ task["add"].pc = "ret"
    /\ task["add"].stage = "quote"
    /\ task' = [task EXCEPT !["add"] =
                  IF @.ret.kind = "ok"
                  THEN [@ EXCEPT !.pc = "pause", !.wakeAt = now + Ms(1000)]
                  ELSE [IdleTask EXCEPT !.pc = "done", !.calls = task["add"].calls]]
    /\ UNCHANGED <<now, hourCycle, API_KEY, storageFull, storageDown, ui, popular, store, lastApiCallTime, nGrants,
                   nRequests, batch, lastDone>>

\* the 1000 ms timer expires: pre-fetch the chart with fetchDailyTimeSeries(symbol, false)
AddPauseOver ==
    /\ task["add"].pc = "pause"
    /\ now >= task["add"].wakeAt
    /\ BeginFetch("add", [task["add"] EXCEPT !.stage = "chart"], "daily",
                  task["add"].symbol, FALSE)
    /\ UNCHANGED <<now, hourCycle, API_KEY, storageFull, storageDown, ui, popular, batch>>

\* the chart pre-fetch has settled; its error is swallowed
AddAfterChart ==
    /\ task["add"].pc = "ret"
    /\ task["add"].stage = "chart"
    /\ task' = [task EXCEPT !["add"] = [IdleTask EXCEPT !.pc = "done", !.calls = task["add"].calls]]
    /\ UNCHANGED <<now, hourCycle, API_KEY, storageFull, storageDown, ui, popular, store, lastApiCallTime, nGrants,
                   nRequests, batch, lastDone>>

(***************************************************************************)
(* loadPopularStocks -> fetchListingStatus                                 *)
(***************************************************************************)
ListingLoad ==
    /\ task["listing"].pc = "idle"
    /\ BeginFetch("listing", task["listing"], "listing", "", TRUE)
    /\ UNCHANGED <<now, hourCycle, API_KEY, storageFull, storageDown, ui, popular, batch>>

ListingSettle ==
    /\ task["listing"].pc = "ret"
    /\ task' = [task EXCEPT !["listing"] = [IdleTask EXCEPT !.pc = "done", !.calls = task["listing"].calls]]
    /\ UNCHANGED <<now, hourCycle, API_KEY, storageFull, storageDown, ui, popular, store, lastApiCallTime, nGrants,
                   nRequests, batch, lastDone>>

(***************************************************************************)
(* data/popularStocks: loadPopularStocks and its callers                   *)
(***************************************************************************)
\* cachedStocks: "null", or where the list came from: "api", "default",
\*   "storage" (the module's own 7-day copy in localStorage)
\* copy: that 7-day copy: "none", "fresh", "expired", "default"
\* pending: callers that hold the pending promise
\* results, listingCalls: what each caller's promise resolved or rejected
\*   with, and the number of fetchListingStatus calls (history)
IdlePopular ==
    [cachedStocks |-> "null", loadingPromise |-> FALSE, copy |-> "none", pending |-> 0,
     results |-> <<>>, listingCalls |-> 0]

\* loadFromCache: the stocks of a fresh copy; an exception is caught
loadFromCache == IF ~storageDown /\ popular.copy = "fresh" THEN "storage" ELSE "null"

\* the copy after loadFromCache: an expired one is removed
CopyAfterLoad == IF ~storageDown /\ popular.copy = "expired" THEN "none" ELSE popular.copy

\* saveToCache(stocks): a setItem that throws is caught
saveToCache == IF storageFull THEN popular.copy ELSE "fresh"

\* a loader that starts a request of its own whatever is pending
SharesPending_Never == FALSE

\* if (loadingPromise) return loadingPromise
SharesPending == popular.loadingPromise

\* a catch handler that passes the failure on to the callers
FallbackResult_Rethrow == "error"

\* the catch handler: cachedStocks = defaultPopularStocks; return it
FallbackResult == "default"

\* the catch handler leaves localStorage alone
CopyAfterFailure == popular.copy

\* A caller calls loadPopularStocks(): the run up to its return.
PopularCall ==
    /\ IF popular.cachedStocks # "null"
       THEN /\ popular' = [popular EXCEPT !.results = Append(@, popular.cachedStocks)]
            /\ UNCHANGED <<task, store, lastApiCallTime, nGrants, nRequests, lastDone>>
       ELSE IF loadFromCache # "null"
       THEN /\ popular' = [popular EXCEPT !.cachedStocks = loadFromCache,
                                           !.results = Append(@, loadFromCache)]
            /\ UNCHANGED <<task, store, lastApiCallTime, nGrants, nRequests, lastDone>>
       ELSE IF SharesPending
       THEN /\ popular' = [popular EXCEPT !.copy = CopyAfterLoad, !.pending = @ + 1]
            /\ UNCHANGED <<task, store, lastApiCallTime, nGrants, nRequests, lastDone>>
       ELSE /\ popular' = [popular EXCEPT !.copy = CopyAfterLoad, !.pending = @ + 1,
                                           !.loadingPromise = TRUE, !.listingCalls = @ + 1]
            /\ BeginFetch("listing", task["listing"], "listing", "", TRUE)
    /\ UNCHANGED <<now, hourCycle, API_KEY, storageFull, storageDown, batch, ui>>

\* fetchListingStatus has settled: the then, catch and finally handlers run
\* and every caller that holds the promise gets its result.
PopularSettle ==
    /\ task["listing"].pc = "ret"
    /\ LET ok == task["listing"].ret.kind = "ok"
           result == IF ok THEN "api" ELSE FallbackResult
       IN  popular' = [popular EXCEPT
                         !.cachedStocks = IF ok THEN "api" ELSE "default",
                         !.copy = IF ok THEN saveToCache ELSE CopyAfterFailure,
                         !.loadingPromise = FALSE,
                         !.pending = 0,
                         !.results = @ \o [k \in 1..popular.pending |-> result]]
    /\ task' = [task EXCEPT !["listing"] = [IdleTask EXCEPT !.calls = task["listing"].calls]]
    /\ UNCHANGED <<now, hourCycle, API_KEY, storageFull, storageDown, store, lastApiCallTime, nGrants,
                   nRequests, batch, lastDone, ui>>

(***************************************************************************)
(* Dashboard, the useStockData hook and StockManager                       *)
(***************************************************************************)
LoadIds == {"load1", "load2"}
AddIds == {"add", "add2"}

\* One run of fetchStocks with the fetchMultipleQuotes call it awaits.
\* abandoned: the watchlist has changed or the component was unmounted
\*   while the run was pending (history; the code keeps no such flag)
IdleLoad ==
    [pc |-> "idle", symbols |-> <<>>, useCache |-> TRUE, i |-> 0, quotes |-> <<>>,
     errors |-> <<>>, result |-> NoResult, abandoned |-> FALSE]

\* One run of handleAdd: the symbol typed and the symbols prop of the render
\* in which the handler was created.
\* removed: the user has removed the symbol after the run added it (history)
IdleAdd == [pc |-> "idle", symbol |-> "", closure |-> <<>>, removed |-> FALSE]

DEFAULT_SYMBOLS == <<"AAPL", "MSFT", "GOOGL">>

\* symbols[0], undefined ("") for an empty array
First(symbols) == IF Len(symbols) > 0 THEN symbols[1] ELSE ""

\* symbols.includes(symbol)
InList(symbols, symbol) == \E k \in 1..Len(symbols) : symbols[k] = symbol

\* symbols.filter((s) => s !== symbolToRemove)
RECURSIVE Without(_, _)
Without(symbols, symbolToRemove) ==
    IF symbols = <<>> THEN <<>>
    ELSE IF Head(symbols) = symbolToRemove THEN Without(Tail(symbols), symbolToRemove)
    ELSE <<Head(symbols)>> \o Without(Tail(symbols), symbolToRemove)

\* loadSymbols: the saved array if it is a non-empty array, else the defaults
\* (saved = <<>>: nothing saved, an empty array or unreadable storage)
loadSymbols(saved) == IF Len(saved) > 0 THEN saved ELSE DEFAULT_SYMBOLS

\* start-up that trusts the persisted selection
loadSelectedSymbol_Saved(symbols, saved) == IF saved # "" THEN saved ELSE First(symbols)

\* loadSelectedSymbol: the saved selection if it is in the watchlist
loadSelectedSymbol(symbols, saved) ==
    IF saved # "" /\ InList(symbols, saved) THEN saved ELSE First(symbols)

\* a handler that lets the user remove any symbol
IsLastSymbol_Never(symbols) == FALSE

\* handleRemove: symbols.length === 1
IsLastSymbol(symbols) == Len(symbols) = 1

\* (symbolToAdd || inputValue).trim().toUpperCase()
TrimUpper(typed) ==
    CASE typed = "msft" -> "MSFT"
      [] typed = "  " -> ""
      [] OTHER -> typed

\* symbols, selectedSymbol: state of Dashboard
\* managerError: the error state of StockManager
\* reselected: handleRemove has moved the selection (history)
\* stocks, loading, error, progress: state of the useStockData hook
\* mounted: Dashboard is mounted; latest: the run of fetchStocks started last
IdleUi ==
    [symbols |-> <<>>, selectedSymbol |-> "", stocks |-> <<>>, loading |-> TRUE,
     error |-> <<>>, progress |-> LogEntry("progress", "", "", 0, 0),
     mounted |-> FALSE, latest |-> "none",
     loads |-> [l \in LoadIds |-> IdleLoad], adds |-> [a \in AddIds |-> IdleAdd],
     managerError |-> <<>>, reselected |-> FALSE]

\* React drops the state updates of a component that is no longer mounted.
SetState(u, updated) == IF u.mounted THEN updated ELSE u

\* One loop iteration of fetchMultipleQuotes for the run l, whose record is
\* ld and whose hook state is u, up to the await of fetchQuote.
HookIterate(l, u, ld) ==
    /\ ui' = [SetState(u, [u EXCEPT !.progress = ProgressEvent(ld.symbols, ld.i)])
                EXCEPT !.loads[l] = ld]
    /\ BeginFetch(l, task[l], "quote", ld.symbols[ld.i + 1], ld.useCache)

\* The effect of the hook runs fetchStocks() for the symbols Dashboard
\* passes: the run l up to its first await.  The runs still pending are the
\* ones the caller has lost interest in.
fetchStocks(l, symbols) ==
    /\ ui.loads[l].pc = "idle"
    /\ l = "load2" => ui.loads["load1"].pc # "idle"
    /\ Len(symbols) > 0
    /\ LET m == [ui EXCEPT !.mounted = TRUE, !.symbols = symbols, !.latest = l,
                           !.loads = [k \in LoadIds |->
                                        IF ui.loads[k].pc = "run"
                                        THEN [ui.loads[k] EXCEPT !.abandoned = TRUE]
                                        ELSE ui.loads[k]]]
           u == [m EXCEPT !.loading = TRUE, !.error = <<>>, !.stocks = <<>>,
                          !.progress = LogEntry("progress", "loading", "", 0, Len(symbols))]
       IN  HookIterate(l, u, [IdleLoad EXCEPT !.pc = "run", !.symbols = symbols])
    /\ UNCHANGED <<now, hourCycle, API_KEY, storageFull, storageDown, popular, batch>>

\* A fetchQuote has settled and the continuation of its caller is queued as
\* a microtask: it runs before any event of the user is handled.
ContinuationQueued == \E t \in LoadIds \cup AddIds : task[t].pc = "ret"

\* Dashboard mounts with the watchlist loadSymbols has read.
HookMount(symbols) ==
    /\ ~ui.mounted /\ ui.latest = "none"
    /\ fetchStocks("load1", symbols)

\* Dashboard's symbols state has changed: fetchStocks is a new callback and
\* the effect runs again.
WatchlistChange(l, symbols) ==
    /\ ui.mounted /\ symbols # ui.symbols
    /\ ~ContinuationQueued
    /\ fetchStocks(l, symbols)

\* Dashboard is unmounted; the hook has no cleanup.
HookUnmount ==
    /\ ui.mounted
    /\ ~ContinuationQueued
    /\ ui' = [ui EXCEPT !.mounted = FALSE,
                        !.loads = [k \in LoadIds |->
                                     IF ui.loads[k].pc = "run"
                                     THEN [ui.loads[k] EXCEPT !.abandoned = TRUE]
                                     ELSE ui.loads[k]]]
    /\ UNCHANGED <<now, hourCycle, API_KEY, storageFull, storageDown, popular, store,
                   lastApiCallTime, nGrants, nRequests, task, batch, lastDone>>

\* The fetchQuote the run l awaits has settled: push the quote or the error,
\* then run the next iteration, or leave the loop and let fetchStocks apply
\* the outcome: setStocks or setError, then setLoading(false).
HookResume(l) ==
    /\ task[l].pc = "ret"
    /\ ui.loads[l].pc = "run"
    /\ LET ret == task[l].ret
           old == ui.loads[l]
           ld == [old EXCEPT
                    !.quotes = IF ret.kind = "ok" THEN Append(@, ret.data) ELSE @,
                    !.errors = IF ret.kind = "err"
                               THEN Append(@, [symbol |-> old.symbols[old.i + 1],
                                               error |-> ret.msg])
                               ELSE @,
                    !.i = @ + 1]
           result == BatchResult(ld.quotes, ld.errors)
       IN  IF ld.i < Len(ld.symbols)
           THEN HookIterate(l, ui, ld)
           ELSE /\ ui' = [SetState(ui, [ui EXCEPT
                                          !.stocks = IF result.kind = "returned"
                                                     THEN result.quotes ELSE @,
                                          !.error = IF result.kind = "raised"
                                                    THEN result.msg ELSE @,
                                          !.loading = FALSE])
                           EXCEPT !.loads[l] = [ld EXCEPT !.pc = "done", !.result = result]]
                /\ task' = [task EXCEPT ![l].pc = "done"]
                /\ UNCHANGED <<store, lastApiCallTime, nGrants, nRequests, lastDone>>
    /\ UNCHANGED <<now, hourCycle, API_KEY, storageFull, storageDown, popular, batch>>

(***************************************************************************)
(* StockManager: handleAdd, handleRemove and the watchlist chips           *)
(***************************************************************************)
\* The user submits typed: the run a of handleAdd up to its return or to the
\* await of the validating fetchQuote(symbol, false).  symbols is the prop
\* of the render that created the handler.
handleAdd(a, typed) ==
    /\ ui.mounted /\ ~ContinuationQueued
    /\ ui.adds[a].pc = "idle"
    /\ a = "add2" => ui.adds["add"].pc # "idle"
    /\ LET symbol == TrimUpper(typed)
           refusal == IF symbol = "" THEN <<"Please enter a stock symbol">>
                      ELSE IF ~validateSymbol(symbol) THEN <<"Invalid symbol format">>
                      ELSE IF InList(ui.symbols, symbol) THEN <<"Symbol already in watchlist">>
                      ELSE <<>>
       IN  IF refusal # <<>>
           THEN /\ ui' = [ui EXCEPT !.managerError = refusal]
                /\ UNCHANGED <<task, store, lastApiCallTime, nGrants, nRequests, lastDone>>
           ELSE /\ ui' = [ui EXCEPT !.managerError = <<"Loading data...">>,
                                    !.adds[a] = [IdleAdd EXCEPT !.pc = "pending",
                                                                !.symbol = symbol,
                                                                !.closure = ui.symbols]]
                /\ BeginFetch(a, [task[a] EXCEPT !.stage = "quote"], "quote", symbol, FALSE)
    /\ UNCHANGED <<now, hourCycle, API_KEY, storageFull, storageDown, popular, batch>>

\* The validating fetchQuote of the run a has settled: on success sleep
\* 1000 ms, on failure show the error and leave the watchlist alone.
AddQuoteSettled(a) ==
    /\ task[a].pc = "ret"
    /\ task[a].stage = "quote"
    /\ ui.adds[a].pc = "pending"
    /\ IF task[a].ret.kind = "ok"
       THEN /\ task' = [task EXCEPT ![a].pc = "pause", ![a].wakeAt = now + Ms(1000)]
            /\ UNCHANGED ui
       ELSE /\ task' = [task EXCEPT ![a] = [IdleTask EXCEPT !.pc = "done",
                                                            !.calls = task[a].calls]]
            /\ ui' = [ui EXCEPT !.managerError = <<"Invalid symbol: ">> \o task[a].ret.msg,
                                !.adds[a].pc = "failed"]
    /\ UNCHANGED <<now, hourCycle, API_KEY, storageFull, storageDown, popular, store,
                   lastApiCallTime, nGrants, nRequests, batch, lastDone>>

\* the 1000 ms timer of the run a expires: pre-fetch the chart
AddDelayOver(a) ==
    /\ task[a].pc = "pause"
    /\ ui.adds[a].pc = "pending"
    /\ now >= task[a].wakeAt
    /\ BeginFetch(a, [task[a] EXCEPT !.stage = "chart"], "daily", task[a].symbol, FALSE)
    /\ UNCHANGED <<now, hourCycle, API_KEY, storageFull, storageDown, ui, popular, batch>>

\* The chart pre-fetch of the run a has settled, its error is swallowed:
\* onSymbolsChange([...symbols, symbol]) with the symbols the handler closed
\* over, then onSymbolSelect(symbol).
AddFinish(a) ==
    /\ task[a].pc = "ret"
    /\ task[a].stage = "chart"
    /\ ui.adds[a].pc = "pending"
    /\ ui' = [ui EXCEPT !.symbols = Append(ui.adds[a].closure, ui.adds[a].symbol),
                        !.selectedSymbol = ui.adds[a].symbol,
                        !.managerError = <<>>,
                        !.adds[a].pc = "added"]
    /\ task' = [task EXCEPT ![a] = [IdleTask EXCEPT !.pc = "done", !.calls = task[a].calls]]
    /\ UNCHANGED <<now, hourCycle, API_KEY, storageFull, storageDown, popular, store,
                   lastApiCallTime, nGrants, nRequests, batch, lastDone>>

\* The user clicks the remove button of a chip of the watchlist.
handleRemove(symbolToRemove) ==
    /\ ui.mounted /\ ~ContinuationQueued
    /\ InList(ui.symbols, symbolToRemove)
    /\ IF IsLastSymbol(ui.symbols)
       THEN ui' = [ui EXCEPT !.managerError = <<"Cannot remove the last symbol">>]
       ELSE LET newSymbols == Without(ui.symbols, symbolToRemove)
                moved == ui.selectedSymbol = symbolToRemove
            IN  ui' = [ui EXCEPT
                         !.symbols = newSymbols,
                         !.managerError = <<>>,
                         !.selectedSymbol = IF moved THEN First(newSymbols) ELSE @,
                         !.reselected = @ \/ moved,
                         !.adds = [a \in AddIds |->
                                     IF ui.adds[a].pc = "added"
                                        /\ ui.adds[a].symbol = symbolToRemove
                                     THEN [ui.adds[a] EXCEPT !.removed = TRUE]
                                     ELSE ui.adds[a]]]
    /\ UNCHANGED <<now, hourCycle, API_KEY, storageFull, storageDown, popular, store,
                   lastApiCallTime, nGrants, nRequests, task, batch, lastDone>>

\* The user clicks a chip of the watchlist.
SymbolSelect(symbol) ==
    /\ ui.mounted /\ ~ContinuationQueued
    /\ InList(ui.symbols, symbol)
    /\ symbol # ui.selectedSymbol
    /\ ui' = [ui EXCEPT !.selectedSymbol = symbol]
    /\ UNCHANGED <<now, hourCycle, API_KEY, storageFull, storageDown, popular, store,
                   lastApiCallTime, nGrants, nRequests, task, batch, lastDone>>

(***************************************************************************)
(* Clock, initial states, specifications                                   *)
(***************************************************************************)
\* Monday 10:00:00, the market is open
StartInstants == {At(0, 10, 0, 0)}

Elapsed == now - CHOOSE s \in StartInstants : s <= now /\ now - s < DAY

\* Time passes, step at a time.  lastDone only serves fetches that follow
\* at the same instant.
Tick(step) ==
    /\ Elapsed < MaxClockSteps * step
    /\ now' = now + step
    /\ lastDone' = <<>>
    /\ UNCHANGED <<hourCycle, API_KEY, storageFull, storageDown, ui, popular, store, lastApiCallTime, nGrants, nRequests,
                   task, batch>>

\* What an earlier session can have left in localStorage: entries written by
\* successful fetches, each <<operation, symbol, age>>.
StoreOf(t, entries) ==
    [k \in {CacheKey(e[1], e[2]) : e \in entries} |->
        LET e == CHOOSE x \in entries : CacheKey(x[1], x[2]) = k
        IN  [data |-> Normalize(e[1], e[2], 0), timestamp |-> t - e[3]]]

\* The quote of AAPL and its daily series are fresh; the quote of MSFT, the
\* weekly series and the listing are expired; the monthly series is absent.
InitStores(t) ==
    { StoreOf(t, {<<"quote", "AAPL", SECOND>>, <<"quote", "MSFT", 3 * MINUTE>>,
                  <<"daily", "AAPL", SECOND>>, <<"weekly", "AAPL", WEEK>>,
                  <<"listing", "", 31 * DAY>>}) }

InitFetch(instants, cycles, keys, stores, fulls, downs) ==
    /\ now \in instants
    /\ hourCycle \in cycles
    /\ API_KEY \in keys
    /\ store \in stores
    /\ storageFull \in fulls
    /\ storageDown \in downs
    /\ lastApiCallTime = 0
    /\ nGrants = 0
    /\ nRequests = 0
    /\ task = [t \in Tasks |-> IdleTask]
    /\ batch = IdleBatch
    /\ lastDone = <<>>

\* initial states in which no component is mounted yet
InitState(instants, cycles, keys, stores, fulls, downs) ==
    /\ InitFetch(instants, cycles, keys, stores, fulls, downs)
    /\ ui = IdleUi
    /\ popular = IdlePopular

\* initial states with a storage that can be read
InitWith(instants, cycles, keys, stores, fulls) ==
    InitState(instants, cycles, keys, stores, fulls, {FALSE})

TotalCalls == task["batch"].calls + task["chart"].calls + task["add"].calls
              + task["listing"].calls

\* Spec: the watchlist load of AAPL, its daily or weekly chart and the
\* listing loader, overlapping at will, start at most MaxCalls fetch
\* operations between them.
CallBudget == TotalCalls <= MaxCalls

Init ==
    InitWith(StartInstants, {"h23"}, ApiKeys, UNION {InitStores(t) : t \in StartInstants},
             BOOLEAN)

Next ==
    \/ Tick(Ms(600))
    \/ \E t \in {"batch", "chart", "listing"} : TimerFire(t)
    \/ \E t \in {"batch", "chart", "listing"}, r \in ProviderResponses : Response(t, r)
    \/ \E useCache \in BOOLEAN : BatchStart(<<"AAPL">>, useCache) /\ CallBudget'
    \/ BatchResume
    \/ \E timeRange \in {"daily", "weekly"}, useCache \in BOOLEAN :
          ChartLoad("AAPL", timeRange, useCache) /\ CallBudget'
    \/ ChartSettle
    \/ ListingLoad /\ CallBudget'
    \/ ListingSettle

Spec == Init /\ [][Next]_vars

\* SpecBatch: fetchMultipleQuotes on its own, over every symbol list.
NextBatch ==
    \/ Tick(Ms(1200))
    \/ TimerFire("batch")
    \/ \E r \in ProviderResponses : Response("batch", r)
    \/ \E symbols \in SymbolLists, useCache \in BOOLEAN : BatchStart(symbols, useCache)
    \/ BatchResume

SpecBatch == Init /\ [][NextBatch]_vars

\* SpecLimiter: every caller of waitForRateLimit at once, with a configured
\* key and an empty store: the watchlist load, the chart, handleAdd and the
\* listing loader start at most MaxLimiterCalls fetch operations.
LimiterResponses ==
    { Resp(FALSE, <<>>, <<>>, <<>>, 0, FALSE), Resp(TRUE, <<>>, <<>>, <<>>, 1, TRUE) }

LimiterBudget == TotalCalls <= MaxLimiterCalls

InitLimiter ==
    InitWith(StartInstants, {"h23"}, {"DEMOKEY0123456789"},
             {StoreOf(t, {}) : t \in StartInstants}, {FALSE})

NextLimiter ==
    \/ Tick(Ms(600))
    \/ \E t \in Tasks : TimerFire(t)
    \/ \E t \in Tasks, r \in LimiterResponses : Response(t, r)
    \/ BatchStart(<<"AAPL">>, TRUE) /\ LimiterBudget'
    \/ BatchResume
    \/ \E timeRange \in TimeRanges : ChartLoad("AAPL", timeRange, TRUE) /\ LimiterBudget'
    \/ ChartSettle
    \/ AddStart("MSFT") /\ LimiterBudget'
    \/ AddAfterQuote
    \/ AddPauseOver /\ LimiterBudget'
    \/ AddAfterChart
    \/ ListingLoad /\ LimiterBudget'
    \/ ListingSettle

SpecLimiter == InitLimiter /\ [][NextLimiter]_vars

\* SpecCal: one fetch operation (a watchlist load of AAPL, a chart load or
\* the listing load) at any instant of eight days, Monday to the Monday
\* after, at times of day on both sides of the open and of the close, under
\* either hour cycle of the engine; between fetches the clock moves on from
\* instant to instant.
CalTimes ==
    { <<0, 10, 0>>, <<9, 29, 30>>, <<9, 30, 0>>, <<9, 30, 20>>, <<12, 0, 30>>,
      <<12, 2, 30>>, <<15, 59, 59>>, <<16, 0, 0>>, <<16, 0, 30>>, <<20, 15, 40>> }

CalInstants == { At(d, t[1], t[2], t[3]) : d \in 0..7, t \in CalTimes }

Advance(t) ==
    /\ t > now
    /\ now' = t
    /\ lastDone' = <<>>
    /\ UNCHANGED <<hourCycle, API_KEY, storageFull, storageDown, ui, popular, store, lastApiCallTime, nGrants, nRequests,
                   task, batch>>

\* no fetch operation is running
Quiet == \A t \in Tasks : task[t].pc \in {"idle", "done"}

InitCal ==
    InitWith(CalInstants, {"h23", "h24"}, {"DEMOKEY0123456789"}, {<<>>}, {FALSE})

NextCal ==
    \/ \E t \in CalInstants : Quiet /\ Advance(t)
    \/ \E useCache \in BOOLEAN : TotalCalls = 0 /\ BatchStart(<<"AAPL">>, useCache)
    \/ \E timeRange \in TimeRanges :
          TotalCalls = 0 /\ ChartLoad("AAPL", timeRange, TRUE)
    \/ TotalCalls = 0 /\ ListingLoad
    \/ \E t \in {"batch", "chart", "listing"}, r \in LimiterResponses : Response(t, r)
    \/ BatchResume
    \/ ChartSettle
    \/ ListingSettle

SpecCal == InitCal /\ [][NextCal]_vars

\* One cache read at any instant of the calendar, over a store that holds one
\* entry written earlier.
CaptureInstants == { At(0, 12, 0, 30), At(4, 16, 0, 30), At(5, 0, 10, 0) }

ReadStores ==
    { StoreOf(c, {<<op, "AAPL", 0>>}) : c \in CaptureInstants, op \in Ops \ {"listing"} }
      \cup { StoreOf(c, {<<"listing", "", 0>>}) :
                c \in {At(0, 12, 0, 30), At(0, 12, 0, 30) - LISTING_CACHE_DURATION} }

InitRead ==
    /\ InitWith(CalInstants, {"h23", "h24"}, {"DEMOKEY0123456789"}, ReadStores, {FALSE})
    /\ \A key \in DOMAIN store : store[key].timestamp <= now

NextRead ==
    \/ \E useCache \in BOOLEAN : TotalCalls = 0 /\ BatchStart(<<"AAPL">>, useCache)
    \/ \E timeRange \in TimeRanges, useCache \in BOOLEAN :
          TotalCalls = 0 /\ ChartLoad("AAPL", timeRange, useCache)
    \/ TotalCalls = 0 /\ ListingLoad
    \/ \E t \in {"batch", "chart", "listing"}, r \in LimiterResponses : Response(t, r)
    \/ BatchResume
    \/ ChartSettle
    \/ ListingSettle

SpecRead == InitRead /\ [][NextRead]_vars

\* One fetch operation over a storage that may fail: getItem throws, setItem
\* throws, or the values under the keys are not valid JSON.
StorageStores ==
    { <<>>,
      [k \in {CacheKey(op, "AAPL") : op \in Ops} |-> Corrupt] }
      \cup UNION {InitStores(t) : t \in StartInstants}

InitStorage ==
    InitState(StartInstants, {"h23"}, {"DEMOKEY0123456789"}, StorageStores, BOOLEAN, BOOLEAN)

NextStorage ==
    \/ \E useCache \in BOOLEAN : TotalCalls = 0 /\ BatchStart(<<"AAPL">>, useCache)
    \/ \E timeRange \in TimeRanges, useCache \in BOOLEAN :
          TotalCalls = 0 /\ ChartLoad("AAPL", timeRange, useCache)
    \/ TotalCalls = 0 /\ ListingLoad
    \/ \E t \in {"batch", "chart", "listing"}, r \in LimiterResponses : Response(t, r)
    \/ BatchResume
    \/ ChartSettle
    \/ ListingSettle

SpecStorage == InitStorage /\ [][NextStorage]_vars

\* SpecBatched: the batched fetchMultipleQuotes over watchlists of up to
\* MaxBatchedSymbols symbols, with or without a progress handler, with an
\* empty store or with fresh quotes of the second and the sixth symbol in it;
\* at most MaxDisturbances provider responses fail or are slow.
Watchlist ==
    <<"AAPL", "MSFT", "GOOGL", "AMZN", "TSLA", "NVDA", "META", "NFLX", "AMD", "INTC",
      "IBM", "ORCL", "CSCO", "ADBE">>

BatchedSymbolLists == { SubSeq(Watchlist, 1, n) : n \in 0..MaxBatchedSymbols }

Disturbances == Len(batch.errors) + batch.slow

InitBatched ==
    InitWith(StartInstants, {"h23"}, {"DEMOKEY0123456789"},
             { <<>>,
               StoreOf(At(0, 10, 0, 0), {<<"quote", "MSFT", SECOND>>, <<"quote", "NVDA", SECOND>>}) },
             {FALSE})

NextBatched ==
    \/ \E symbols \in BatchedSymbolLists, onProgress \in BOOLEAN, useCache \in BOOLEAN :
          BatchedStart(symbols, onProgress, useCache)
    \/ \E r \in LimiterResponses :
          /\ r.ok \/ Disturbances < MaxDisturbances
          /\ Response("batch", r)
    \/ Disturbances < MaxDisturbances /\ SlowResponse(Ms(300))
    \/ BatchedResume
    \/ BatchedSleep
    \/ BatchedWake

SpecBatched == InitBatched /\ [][NextBatched]_vars

\* SpecErrors: one fetch whose response carries any combination of the
\* provider's notices, in the wording the provider uses.
DailyLimitInfo ==
    <<"We have detected your API key as ", "DEMOKEY0123456789",
      " and our standard API rate limit is ", "25 requests per day", ".">>
BurstInfo ==
    <<"Please consider spreading out your free API requests more sparingly (1 request ",
      "per second", ").">>
MinuteNote ==
    <<"Our standard API call frequency is 5 calls per minute and 500 calls per day.">>
InvalidCall == <<"Invalid API call. Please retry or visit the documentation.">>

NoticeResponses ==
    { Resp(TRUE, info, note, err, payload, TRUE) :
        info \in {<<>>, DailyLimitInfo, BurstInfo}, note \in {<<>>, MinuteNote},
        err \in {<<>>, InvalidCall}, payload \in {0, 1} }

InitErrors == InitWith(StartInstants, {"h23"}, ApiKeys, {<<>>}, BOOLEAN)

NextErrors ==
    \/ \E useCache \in BOOLEAN : TotalCalls = 0 /\ BatchStart(<<"AAPL">>, useCache)
    \/ \E timeRange \in TimeRanges, useCache \in BOOLEAN :
          TotalCalls = 0 /\ ChartLoad("AAPL", timeRange, useCache)
    \/ \E t \in {"batch", "chart"}, r \in NoticeResponses : Response(t, r)
    \/ BatchResume
    \/ ChartSettle

SpecErrors == InitErrors /\ [][NextErrors]_vars

\* SpecRedact: one fetch whose response quotes the API key in any of its
\* notice fields.
KeyNotice == <<"The API key ", "DEMOKEY0123456789", " has reached its limit.">>

KeyResponses ==
    { Resp(TRUE, info, note, err, payload, TRUE) :
        info \in {<<>>, KeyNotice}, note \in {<<>>, KeyNotice},
        err \in {<<>>, KeyNotice}, payload \in {0, 1} }

InitRedact == InitWith(StartInstants, {"h23"}, {"DEMOKEY0123456789"}, {<<>>}, BOOLEAN)

NextRedact ==
    \/ \E useCache \in BOOLEAN : TotalCalls = 0 /\ BatchStart(<<"AAPL">>, useCache)
    \/ \E timeRange \in TimeRanges, useCache \in BOOLEAN :
          TotalCalls = 0 /\ ChartLoad("AAPL", timeRange, useCache)
    \/ \E t \in {"batch", "chart"}, r \in KeyResponses : Response(t, r)
    \/ BatchResume
    \/ ChartSettle

SpecRedact == InitRedact /\ [][NextRedact]_vars

\* SpecKeys: one fetch for any symbol the watchlist accepts, over a store
\* that holds an entry of every category for two symbols.
TypedSymbols == {"AAPL", "BRK.B", "weekly_AAPL", "monthly_AAPL", "aapl", "BRKB.XY"}

AcceptedSymbols == { symbol \in TypedSymbols : validateSymbol(symbol) }

KeyStores ==
    { StoreOf(At(0, 10, 0, 0),
              { <<op, symbol, age>> : op \in Ops \ {"listing"}, symbol \in {"AAPL", "BRK.B"},
                                      age \in {3 * MINUTE} }) }

InitKeys == InitWith(StartInstants, {"h23"}, {"DEMOKEY0123456789"}, KeyStores, BOOLEAN)

NextKeys ==
    \/ \E symbol \in AcceptedSymbols, useCache \in BOOLEAN :
          TotalCalls = 0 /\ BatchStart(<<symbol>>, useCache)
    \/ \E symbol \in AcceptedSymbols, timeRange \in TimeRanges, useCache \in BOOLEAN :
          TotalCalls = 0 /\ ChartLoad(symbol, timeRange, useCache)
    \/ \E t \in {"batch", "chart"}, r \in LimiterResponses : Response(t, r)
    \/ BatchResume
    \/ ChartSettle

SpecKeys == InitKeys /\ [][NextKeys]_vars

\* SpecPopular: up to MaxPopularCalls callers of loadPopularStocks at any
\* time, with every API key, a working, full or unreadable storage, an empty
\* store or one with a fresh and an expired listing entry, and with or
\* without the module's own 7-day copy.
ListingResponses ==
    { Resp(FALSE, <<>>, <<>>, <<>>, 0, FALSE), Resp(TRUE, <<"Information">>, <<>>, <<>>, 0, FALSE),
      Resp(TRUE, <<>>, <<>>, <<>>, 0, FALSE), Resp(TRUE, <<>>, <<>>, <<>>, 1, TRUE) }

InitPopular ==
    /\ InitFetch(StartInstants, {"h23"}, ApiKeys,
                 { <<>>, StoreOf(At(0, 10, 0, 0), {<<"listing", "", DAY>>}),
                   StoreOf(At(0, 10, 0, 0), {<<"listing", "", 31 * DAY>>}) },
                 BOOLEAN, BOOLEAN)
    /\ ui = IdleUi
    /\ popular \in { [IdlePopular EXCEPT !.copy = c] : c \in {"none", "fresh", "expired"} }

NextPopular ==
    \/ Len(popular.results) + popular.pending < MaxPopularCalls /\ PopularCall
    \/ \E r \in ListingResponses : Response("listing", r)
    \/ PopularSettle

SpecPopular == InitPopular /\ [][NextPopular]_vars

\* SpecHook: Dashboard mounts with one watchlist, the watchlist changes once
\* and Dashboard may be unmounted, at any moment of the loads in progress.
\* The quote of AAPL is in the cache, the quote of MSFT has expired.
HookWatchlists == {<<"AAPL">>, <<"MSFT">>, <<"AAPL", "MSFT">>, <<"MSFT", "AAPL">>}

InitHook ==
    InitWith(StartInstants, {"h23"}, {"DEMOKEY0123456789"},
             { <<>>, StoreOf(At(0, 10, 0, 0), {<<"quote", "AAPL", SECOND>>,
                                               <<"quote", "MSFT", 3 * MINUTE>>}) },
             {FALSE})

NextHook ==
    \/ Tick(Ms(600))
    \/ \E l \in LoadIds : TimerFire(l)
    \/ \E l \in LoadIds, r \in LimiterResponses : Response(l, r)
    \/ \E symbols \in HookWatchlists : HookMount(symbols)
    \/ \E symbols \in HookWatchlists : WatchlistChange("load2", symbols)
    \/ \E l \in LoadIds : HookResume(l)
    \/ HookUnmount

SpecHook == InitHook /\ [][NextHook]_vars

\* SpecWatchlist: Dashboard has mounted with what loadSymbols and
\* loadSelectedSymbol read from localStorage; the user submits up to two
\* symbols, the second possibly while the first is pending, and removes and
\* selects symbols at any moment.  The loads of the hook, which never act on
\* the watchlist, are those of SpecHook.
SavedWatchlists == {<<"AAPL">>, <<"MSFT", "AAPL">>}
SavedSelections == {"", "AAPL", "GOOGL"}
TypedInputs == {"msft", "NVDA", "  ", "weekly_AAPL", "AAPL"}

InitWatchlist ==
    /\ InitFetch(StartInstants, {"h23"}, {"DEMOKEY0123456789"}, {<<>>}, {FALSE}, {FALSE})
    /\ popular = IdlePopular
    /\ \E saved \in SavedWatchlists, selected \in SavedSelections :
          ui = [IdleUi EXCEPT !.mounted = TRUE,
                              !.symbols = loadSymbols(saved),
                              !.selectedSymbol = loadSelectedSymbol(loadSymbols(saved),
                                                                    selected)]

NextWatchlist ==
    \/ Tick(Ms(1200))
    \/ \E a \in AddIds : TimerFire(a)
    \/ \E a \in AddIds, r \in LimiterResponses : Response(a, r)
    \/ \E a \in AddIds, typed \in TypedInputs : handleAdd(a, typed)
    \/ \E a \in AddIds : AddQuoteSettled(a)
    \/ \E a \in AddIds : AddDelayOver(a)
    \/ \E a \in AddIds : AddFinish(a)
    \/ \E symbol \in {"AAPL", "MSFT", "NVDA"} : handleRemove(symbol)
    \/ \E symbol \in {"AAPL", "MSFT", "NVDA"} : SymbolSelect(symbol)

SpecWatchlist == InitWatchlist /\ [][NextWatchlist]_vars

(***************************************************************************)
(* Claims                                                                  *)
(***************************************************************************)
\* the caller t starts a fetch operation in this step
Begins(t) == task'[t].calls = task[t].calls + 1

\* the fetch of caller t returns a result obtained from the provider in this step
Fetched(t) == task[t].pc = "inflight" /\ task'[t].pc = "ret" /\ task'[t].ret.kind = "ok"

\* C1: whenever waitForRateLimit grants a call (stamps lastApiCallTime, after
\* which the request goes out), at least MIN_API_CALL_INTERVAL has passed
\* since the grant before it, whichever callers the two grants belong to.
GrantsSpaced ==
    [][nGrants' # nGrants
       => (nGrants = 0 \/ now - lastApiCallTime >= MIN_API_CALL_INTERVAL)]_vars

\* C2: a fetchQuote, fetchDailyTimeSeries or fetchWeeklyTimeSeries called with
\* useCache = true while getCachedData finds a valid entry under its key
\* returns that entry's payload at once, and the call issues no provider
\* request and changes neither lastApiCallTime nor the store, whatever the
\* API key is.
CacheHitTouchesNothing ==
    [][\A t \in Tasks :
         LET op == task'[t].op
             key == CacheKey(op, task'[t].symbol)
         IN  ( /\ Begins(t)
               /\ op \in {"quote", "daily", "weekly"}
               /\ task'[t].useCache
               /\ getCachedData(key, CacheType(op)) # Null )
             => /\ task'[t].pc = "ret"
                /\ task'[t].ret = Ok(store[key].data, TRUE)
                /\ nRequests' = nRequests
                /\ nGrants' = nGrants
                /\ lastApiCallTime' = lastApiCallTime
                /\ store' = store]_vars

\* a cache hit served while no API key is configured
CacheHitWithoutKey ==
    \E t \in Tasks :
        /\ task[t].pc = "ret"
        /\ task[t].ret.hit
        /\ task[t].op \in {"quote", "daily", "weekly"}
        /\ ~ensureApiKeyConfigured
        /\ nRequests = 0

\* C3 as stated: a fetch that returns a result obtained from the provider
\* has stored that result under its key with timestamp = now, with
\* useCache = false as well, so that a fetch of the same key with
\* useCache = true that follows at once is a cache hit returning that result.
SuccessAlwaysWritesThrough ==
    [][\A t \in Tasks :
         Fetched(t) =>
            LET key == CacheKey(task[t].op, task[t].symbol)
            IN  /\ key \in DOMAIN store'
                /\ store'[key] = [data |-> task'[t].ret.data, timestamp |-> now]
                /\ FetchEntry(task[t].op, task[t].symbol, TRUE)'
                      = Step("hit", task'[t].ret.data, <<>>, 0)]_vars

\* C3 amended: unless localStorage rejects the write, a fetch that returns a
\* result obtained from the provider has stored that result under its key
\* with timestamp = now, with useCache = false as well, so that a fetch of
\* the same key with useCache = true that follows at once is a cache hit
\* returning that result.
SuccessWritesThrough ==
    [][\A t \in Tasks :
         (Fetched(t) /\ ~storageFull) =>
            LET key == CacheKey(task[t].op, task[t].symbol)
            IN  /\ key \in DOMAIN store'
                /\ store'[key] = [data |-> task'[t].ret.data, timestamp |-> now]
                /\ FetchEntry(task[t].op, task[t].symbol, TRUE)'
                      = Step("hit", task'[t].ret.data, <<>>, 0)]_vars

\* a forced refresh has replaced an older entry by the fetched result
ForcedRefreshStored ==
    \E t \in Tasks :
        LET key == CacheKey(task[t].op, task[t].symbol)
        IN  /\ task[t].pc = "ret"
            /\ task[t].ret.kind = "ok"
            /\ task[t].sent
            /\ ~task[t].useCache
            /\ ~storageFull
            /\ key \in DOMAIN store
            /\ store[key] = [data |-> task[t].ret.data, timestamp |-> now]
            /\ store[key].data.value > 0

\* C4: only the step in which a fetch returns a result obtained from the
\* provider changes the store; every other step, so every step of a fetch
\* that ends in an error, leaves each entry as it was.
FailureKeepsStore ==
    [][(\A t \in Tasks : ~Fetched(t)) => store' = store]_vars

\* a fetch has failed at the provider while its key holds an entry
FailedOverEntry ==
    \E t \in Tasks :
        /\ task[t].pc = "ret"
        /\ task[t].ret.kind = "err"
        /\ task[t].sent
        /\ CacheKey(task[t].op, task[t].symbol) \in DOMAIN store

\* C5 as stated: of two successive calls of one fetch operation for one
\* symbol, both with useCache = true and with no time and no forced refresh
\* between them, at most one issues a provider request.
TwoCallsOneRequest ==
    \A t \in Tasks : task[t].succ # "no" => ~(task[t].prevSent /\ task[t].sent)

\* C5 amended: when the first of the two calls returned a result and, if it
\* fetched that result, localStorage accepted the write, the second call is a
\* cache hit and issues no provider request.
SecondCallHitsAfterSuccess ==
    \A t \in Tasks :
        (task[t].succ = "afterOk" /\ ~(task[t].prevSent /\ storageFull))
        => task[t].ret.hit /\ ~task[t].sent

\* the second call follows a first call that fetched from the provider
SecondCallAfterFetch ==
    \E t \in Tasks : task[t].succ = "afterOk" /\ task[t].prevSent /\ task[t].ret.hit

\* C6: a fetch that misses the cache (or bypasses it) while the API key is
\* missing or a placeholder throws the configuration error at once:
\* lastApiCallTime is not stamped, no wait starts, no request is issued.
MissingKeyFailsFirst ==
    [][\A t \in Tasks :
         ( /\ Begins(t)
           /\ CacheLookup(task'[t].op, task'[t].symbol, task'[t].useCache) = Null
           /\ ~ensureApiKeyConfigured )
         => /\ task'[t].pc = "ret"
            /\ task'[t].ret = Err(ConfigErrorMessage)
            /\ ~task'[t].sent
            /\ lastApiCallTime' = lastApiCallTime
            /\ nGrants' = nGrants
            /\ nRequests' = nRequests]_vars

\* the configuration error thrown on an expired entry
ConfigErrorOnMiss ==
    \E t \in Tasks :
        /\ task[t].pc = "ret"
        /\ task[t].ret = Err(ConfigErrorMessage)
        /\ task[t].useCache
        /\ CacheKey(task[t].op, task[t].symbol) \in DOMAIN store
        /\ lastApiCallTime = 0

\* the payloads of the fetchQuote calls that succeeded, in call order
RECURSIVE OkData(_)
OkData(outcomes) ==
    IF outcomes = <<>> THEN <<>>
    ELSE (IF Head(outcomes).kind = "ok" THEN <<Head(outcomes).data>> ELSE <<>>)
         \o OkData(Tail(outcomes))

BatchOver == batch.result.kind # "none"

\* C7: when at least one symbol's fetchQuote succeeded, fetchMultipleQuotes
\* returns (does not throw) exactly the quotes of the symbols that succeeded,
\* in input order, and every symbol of the list was fetched.
PartialFailureReturnsQuotes ==
    (BatchOver /\ \E k \in 1..Len(batch.outcomes) : batch.outcomes[k].kind = "ok")
    => /\ batch.result.kind = "returned"
       /\ Len(batch.outcomes) = Len(batch.symbols)
       /\ batch.result.quotes = OkData(batch.outcomes)
       /\ \A k \in 1..Len(batch.outcomes) :
             batch.outcomes[k].kind = "ok"
             => batch.outcomes[k].data = Data("quote", batch.symbols[k],
                                              batch.outcomes[k].data.value)

\* a call that returned although an earlier symbol of the list had failed
ReturnedAfterFailure ==
    /\ batch.result.kind = "returned"
    /\ \E k, l \in 1..Len(batch.outcomes) :
          k < l /\ batch.outcomes[k].kind = "err" /\ batch.outcomes[l].kind = "ok"

\* C8: fetchMultipleQuotes throws only for a non-empty list of which every
\* symbol was fetched and failed, and the error it throws carries the
\* message of the first symbol's failure.
RaisesOnlyOnTotalFailure ==
    batch.result.kind = "raised"
    => /\ Len(batch.symbols) > 0
       /\ Len(batch.outcomes) = Len(batch.symbols)
       /\ \A k \in 1..Len(batch.outcomes) : batch.outcomes[k].kind = "err"
       /\ batch.result.msg = <<"Error fetching quotes: ">> \o batch.outcomes[1].msg

\* a call that threw after two symbols failed for different reasons
RaisedAfterTwoFailures ==
    /\ batch.result.kind = "raised"
    /\ Len(batch.outcomes) >= 2
    /\ batch.outcomes[1].msg # batch.outcomes[2].msg

\* the log of a call that has gone through the first n symbols of the list
RECURSIVE OrderedLog(_, _)
OrderedLog(symbols, n) ==
    IF n = 0 THEN <<>>
    ELSE OrderedLog(symbols, n - 1)
         \o << [type |-> "progress", status |-> "loading",
                currentSymbol |-> symbols[n], loaded |-> n - 1, total |-> Len(symbols)],
               [type |-> "fetchStart", status |-> "", currentSymbol |-> symbols[n],
                loaded |-> n - 1, total |-> Len(symbols)],
               [type |-> "fetchEnd", status |-> "", currentSymbol |-> symbols[n],
                loaded |-> n - 1, total |-> Len(symbols)] >>

TradingDay(t) == (t \div DAY) % 7 \in 0..4
TradingTime(t) == TradingDay(t) /\ t % DAY >= 9 * HOUR + 30 * MINUTE /\ t % DAY < 16 * HOUR

\* the first market open at or after t
FirstOpenFrom(t) ==
    LET opens == { (t \div DAY + k) * DAY + 9 * HOUR + 30 * MINUTE : k \in 0..3 }
        ahead == { o \in opens : o >= t /\ TradingDay(o) }
    IN  CHOOSE o \in ahead : \A x \in ahead : o <= x

\* C10: a quote stored while the market was closed is absent for
\* getCachedData(key, 'quote') at the first market open after its capture
\* and at every instant after it.
ClosedQuoteGoneAtOpen ==
    \A key \in DOMAIN store :
        ( /\ store[key].data.type = "quote"
          /\ ~TradingTime(store[key].timestamp)
          /\ now >= FirstOpenFrom(store[key].timestamp) )
        => getCachedData(key, "quote") = Null

\* C11: for the instant now, getCacheDuration('quote', now) is exactly two
\* minutes when isMarketOpen(now), and otherwise the larger of one minute and
\* getNextMarketOpen(now) - now.
QuoteDurationAsStated ==
    getCacheDuration("quote", now)
      = IF isMarketOpen(now) THEN 2 * MINUTE
        ELSE Max(MINUTE, getNextMarketOpen(now) - now)

\* a quote captured while the market was closed sits in the store at a later instant
ClosedQuoteStored ==
    \E key \in DOMAIN store :
        /\ store[key].data.type = "quote"
        /\ ~isMarketOpen(store[key].timestamp)
        /\ now > store[key].timestamp
        /\ getCacheDuration("quote", store[key].timestamp) > MINUTE

\* the first market close (Monday to Friday, 16:00:00) at or after t
FirstCloseFrom(t) ==
    LET closes == { (t \div DAY + k) * DAY + 16 * HOUR : k \in 0..3 }
        ahead == { c \in closes : c >= t /\ TradingDay(c) }
    IN  CHOOSE c \in ahead : \A x \in ahead : c <= x

\* C12: for the instant now, getCacheDuration('chart', now) is the larger of
\* one minute and nextClose - now, nextClose being the next market close
\* (Monday to Friday, 16:00:00) after now; at a close itself either that
\* close or the one after it is accepted.
ChartDurationUntilNextClose ==
    getCacheDuration("chart", now)
      \in { Max(MINUTE, FirstCloseFrom(now) - now),
            Max(MINUTE, FirstCloseFrom(now + 1) - now) }

\* C13: whatever the instant, getCacheDuration is exactly 7 days for
\* 'chart_weekly', exactly 30 days for 'listing' and exactly 7 days for a
\* category it does not know, 'chart_monthly' among them.
FixedDurations ==
    /\ getCacheDuration("chart_weekly", now) = 7 * DAY
    /\ getCacheDuration("listing", now) = 30 * DAY
    /\ \A cacheType \in {"chart_monthly", "chart_yearly", ""} :
          getCacheDuration(cacheType, now) = 7 * DAY

\* fetchMonthlyTimeSeries has stored a series on a day without trading
MonthlyStoredOnWeekend ==
    \E key \in DOMAIN store :
        /\ store[key].data.type = "monthly"
        /\ ~TradingDay(store[key].timestamp)
        /\ now = store[key].timestamp
        /\ getCachedData(key, CacheType("monthly")) # Null

\* C14: a fetch operation that reads the cache gets the stored payload exactly
\* when an entry exists under its key and now - timestamp is strictly less
\* than getCacheDuration(cacheType, timestamp); otherwise, from an age equal
\* to the duration on, the read reports absent and the fetch goes on to the
\* provider; and the read leaves the store as it was, expired entry included.
ReadIsExactAndPure ==
    [][\A t \in Tasks :
         Begins(t) =>
           LET op    == task'[t].op
               key   == CacheKey(op, task'[t].symbol)
               reads == op = "listing" \/ task'[t].useCache
               fresh == /\ key \in DOMAIN store
                        /\ now - store[key].timestamp
                             < getCacheDuration(CacheType(op), store[key].timestamp)
           IN  /\ store' = store
               /\ (reads /\ fresh) => task'[t].ret = Ok(store[key].data, TRUE)
               /\ ~(reads /\ fresh) => task'[t].pc = "inflight"]_vars

\* a read found an entry whose age equals its duration, reported it absent
\* and left it in the store
ExpiredEntryKept ==
    \E t \in Tasks :
        LET key == CacheKey(task[t].op, task[t].symbol)
        IN  /\ task[t].pc = "inflight"
            /\ task[t].useCache
            /\ key \in DOMAIN store
            /\ now - store[key].timestamp
                 = getCacheDuration(CacheType(task[t].op), store[key].timestamp)

\* the read of the fetch that caller t starts cannot be served by the storage
ReadFails(t) ==
    LET key == CacheKey(task'[t].op, task'[t].symbol)
    IN  storageDown \/ (key \in DOMAIN store /\ store[key] = Corrupt)

\* C15: a storage failure never reaches the caller of fetchQuote, of a
\* time-series fetch or of fetchListingStatus: when getItem throws or the
\* stored value is not valid JSON the fetch goes on to the provider as on a
\* cache miss, and when setItem throws the fetch still returns what the
\* response yields.
StorageFailureNeverSurfaces ==
    [][\A t \in Tasks :
         /\ (Begins(t) /\ ReadFails(t)) => task'[t].pc = "inflight"
         /\ \A r \in LimiterResponses :
               (storageFull /\ Response(t, r))
                 => task'[t].ret = Classify(task[t].op, task[t].symbol, r)]_vars

\* C16: isMarketOpen(now) is true exactly when now falls on Monday to Friday
\* at an Eastern time of day in [09:30:00, 16:00:00).
MarketOpenExactly == isMarketOpen(now) <=> TradingTime(now)

\* the last second of a trading day, with a quote captured in it
LastTradingSecond ==
    /\ TradingDay(now)
    /\ now % DAY = 15 * HOUR + 59 * MINUTE + 59 * SECOND
    /\ isMarketOpen(now)
    /\ \E key \in DOMAIN store : store[key].timestamp = now

\* C17: getNextMarketOpen(now) is the first instant after now that falls on
\* Monday to Friday at exactly 09:30:00 (now itself is accepted when it is
\* such an instant).
NextOpenIsFirstOpen ==
    getNextMarketOpen(now) \in { FirstOpenFrom(now), FirstOpenFrom(now + 1) }

\* C18: getMarketCloseTime(now) is not earlier than now and falls on a day
\* from Monday to Friday.
CloseTimeOnTradingDay ==
    /\ getMarketCloseTime(now) >= now
    /\ TradingDay(getMarketCloseTime(now))

\* the 'waiting' progress events handed to onProgress so far
WaitingEvents(log) == SelectSeq(log, LAMBDA e : e.status = "waiting")

\* the caller is suspended in the pause between two batches
BetweenBatches(tk) == tk["batch"].pc = "pause" /\ tk["batch"].stage = "batchWait"

\* C19: in the batched fetchMultipleQuotes, of any six consecutive fetchQuote
\* calls the sixth starts more than 60 seconds after the first, so that no
\* 60-second window holds more than five starts; the first call of a batch
\* starts at least 61 seconds after the fifth call of the batch before it;
\* and the step that begins the pause between two batches, and no other
\* step, hands one 'waiting' event to the progress handler before it
\* suspends.
BatchedCallsSpaced ==
    [][/\ \A k \in 1..Len(batch'.starts) - BATCH_SIZE :
             batch'.starts[k + BATCH_SIZE] - batch'.starts[k] > 60 * SECOND
       /\ \A k \in 1..Len(batch'.starts) - 1 :
             k % BATCH_SIZE = 0 =>
                batch'.starts[k + 1] - batch'.starts[k] >= WAIT_BETWEEN_BATCHES
       /\ (BetweenBatches(task') /\ ~BetweenBatches(task) /\ batch'.onProgress)
             => /\ batch'.log[Len(batch'.log)] = WaitingEvent(batch'.symbols, batch'.i)
                /\ Len(WaitingEvents(batch'.log)) = Len(WaitingEvents(batch.log)) + 1
       /\ ~(BetweenBatches(task') /\ ~BetweenBatches(task))
             => Len(WaitingEvents(batch'.log)) = Len(WaitingEvents(batch.log))
       /\ (Len(batch'.starts) > Len(batch.starts) /\ Len(batch.starts) > 0
            /\ Len(batch.starts) % BATCH_SIZE = 0)
             => BetweenBatches(task)]_vars

\* the eleventh symbol is being fetched after two announced pauses
ThirdBatchReached ==
    /\ Len(batch.starts) = 2 * BATCH_SIZE + 1
    /\ Len(WaitingEvents(batch.log)) = 2
    /\ Len(batch.errors) > 0
    /\ task["batch"].pc = "inflight"

\* the error shape of a response: its first notice in the order the fetch
\* operations test them
Shape(r) ==
    IF parseInformationMessage(r.Information) # <<>> THEN "Information"
    ELSE IF parseInformationMessage(r.Note) # <<>> THEN "Note"
    ELSE IF r.ErrorMessage # <<>> THEN "Error Message"
    ELSE "none"

\* the guidance that belongs to each error kind
KindGuidance(shape) ==
    CASE shape = "Information" -> ErrorGuidance(<<"daily limit">>)
      [] shape = "Note" -> ErrorGuidance(<<"API limit">>)
      [] shape = "Error Message" -> ErrorGuidance(<<>>)

\* C20: a response with 'Information' is surfaced to the caller as the daily
\* quota kind, one with 'Note' (and no 'Information') as the throttle kind,
\* one with only 'Error Message' as the invalid-symbol kind, so that the
\* guidance the chart shows for the failure is the one of that kind.
ErrorKindFollowsShape ==
    [][\A r \in NoticeResponses :
         (Response("chart", r) /\ Shape(r) # "none")
           => ErrorGuidance(task'["chart"].ret.msg) = KindGuidance(Shape(r))]_vars

\* the message holds a run of 16 or more uppercase letters and digits
CarriesKey(msg) == \E i \in 1..Len(msg) : msg[i] \in LongUpperAlnum

\* C21: no error that a fetch operation or fetchMultipleQuotes raises holds
\* a run of 16 or more uppercase-alphanumeric characters, whichever field of
\* the response ('Information', 'Note', 'Error Message') its text came from.
NoKeyInErrors ==
    /\ \A t \in Tasks : task[t].ret.kind = "err" => ~CarriesKey(task[t].ret.msg)
    /\ batch.result.kind = "raised" => ~CarriesKey(batch.result.msg)

\* the progress events handed to onProgress so far, in emission order
ProgressEvents(log) == SelectSeq(log, LAMBDA e : e.type = "progress")

\* C25: within one fetchMultipleQuotes call the loaded values of the
\* progress events, 'loading' and 'waiting' alike, strictly increase in
\* emission order.
LoadedStrictlyIncreasing ==
    LET events == ProgressEvents(batch.log)
    IN  \A k \in 1..Len(events) - 1 : events[k].loaded < events[k + 1].loaded

\* the (operation, symbol) pairs the watchlist can ask for
KeyPairs == {"quote", "daily", "weekly", "monthly"} \X AcceptedSymbols

\* the entry under key k is not the same before and after the step
EntryChanged(k) ==
    \/ (k \in DOMAIN store) # (k \in DOMAIN store')
    \/ k \in DOMAIN store /\ k \in DOMAIN store' /\ store'[k] # store[k]

\* C30: two different (category, symbol) pairs of accepted symbols never
\* have the same cache key, and a step changes the entry of a key only if it
\* is the key of the fetch that receives its response in that step.
KeysDisjointAndFramed ==
    [][/\ \A p, q \in KeyPairs : p # q => CacheKey(p[1], p[2]) # CacheKey(q[1], q[2])
       /\ \A k \in DOMAIN store \cup DOMAIN store' :
             EntryChanged(k) =>
                \E t \in Tasks : Fetched(t) /\ k = CacheKey(task[t].op, task[t].symbol)]_vars

\* the weekly series of BRK.B has been rewritten while the seven other
\* entries are those of three minutes ago
WeeklyRewrittenAlone ==
    /\ task["chart"].pc = "ret" /\ task["chart"].op = "weekly"
    /\ task["chart"].symbol = "BRK.B"
    /\ store[CacheKey("weekly", "BRK.B")].timestamp = now
    /\ \A p \in KeyPairs :
          p # <<"weekly", "BRK.B">> => store[CacheKey(p[1], p[2])].timestamp = now - 3 * MINUTE


\* C22: loadPopularStocks never fails.  No caller's promise is ever rejected,
\* and when fetchListingStatus has failed (missing key, network or HTTP
\* error, provider notice, empty listing, unreadable storage) every caller
\* that holds the promise gets the default list, which becomes cachedStocks,
\* while the persistent copy of the listing stays as it was.
ListingFailed == task["listing"].pc = "ret" /\ task["listing"].ret.kind = "err"

PopularNeverFails ==
    [][ /\ \A k \in 1..Len(popular'.results) : popular'.results[k] # "error"
        /\ (ListingFailed /\ popular'.results # popular.results)
             => /\ \A k \in (Len(popular.results) + 1)..Len(popular'.results) :
                      popular'.results[k] = "default"
                /\ popular'.cachedStocks = "default"
                /\ popular'.copy = popular.copy
                /\ store' = store ]_vars

\* a failed listing request was answered with the default list while the
\* storage could have taken a copy
DefaultServedUnsaved ==
    /\ popular.cachedStocks = "default"
    /\ Len(popular.results) >= 2
    /\ popular.results[1] = "default"
    /\ ~storageFull /\ ~storageDown
    /\ popular.copy = "none"

\* C26: in one page session loadPopularStocks calls fetchListingStatus at
\* most once, whatever the number and timing of its callers.
AtMostOneListingCall == popular.listingCalls <= 1

\* two callers hold the one pending promise
PromiseShared == popular.pending = 2 /\ popular.listingCalls = 1

\* C23: the result of a superseded load is never applied to the visible
\* state.  While Dashboard is mounted, the displayed stocks, error and
\* loading flag are those of the run of fetchStocks that started last:
\* loading with no stocks and no error while that run is pending, and its
\* quotes or its error, not loading, once it has completed.
VisibleIsLatest ==
    (ui.mounted /\ ui.latest \in LoadIds) =>
        LET ld == ui.loads[ui.latest]
        IN  IF ld.pc = "run"
            THEN ui.loading /\ ui.stocks = <<>> /\ ui.error = <<>>
            ELSE ~ui.loading /\ ui.stocks = ld.result.quotes /\ ui.error = ld.result.msg

\* C24: after the caller has abandoned a fetchMultipleQuotes call, the call
\* starts no further fetchQuote for its remaining symbols.
NoFetchAfterAbandon ==
    [][\A l \in LoadIds : ui.loads[l].abandoned => task'[l].calls = task[l].calls]_vars

\* C27: every symbol whose handleAdd completed successfully is in the
\* watchlist afterwards and stays there until the user removes it, also when
\* several handleAdd calls, or a handleAdd and a handleRemove, overlap.
AddedSymbolsStay ==
    \A a \in AddIds :
        (ui.adds[a].pc = "added" /\ ~ui.adds[a].removed) => InList(ui.symbols, ui.adds[a].symbol)

\* C28: after any sequence and interleaving of handleAdd and handleRemove,
\* starting from a non-empty duplicate-free watchlist, the watchlist is never
\* empty and never contains the same symbol twice.
WatchlistWellFormed ==
    /\ Len(ui.symbols) > 0
    /\ \A j, k \in 1..Len(ui.symbols) : ui.symbols[j] = ui.symbols[k] => j = k

\* a symbol has been added, and the removal of the only symbol refused
LastSymbolKept ==
    /\ ui.managerError = <<"Cannot remove the last symbol">>
    /\ \E a \in AddIds : ui.adds[a].pc = "added"

\* C29: the selected symbol is always a member of the watchlist, at start-up
\* and after any sequence and interleaving of handleAdd, handleRemove and
\* symbol-select operations.
SelectedInWatchlist == InList(ui.symbols, ui.selectedSymbol)

\* both submitted symbols have been added and a removal has moved the selection
SelectionMoved ==
    /\ ui.reselected
    /\ \A a \in AddIds : ui.adds[a].pc = "added"
====
